---------------------------- MODULE Spec2Model ----------------------------
(***************************************************************************)
(* Model of the MP3 LSB steganography codec of src/src/stego/stego.py      *)
(* (embed, extract, detect_bits_per_sample, the MP3 frame scanner and the  *)
(* protected-index set), with the Vigenere cipher, the key-derived start   *)
(* offset and the reader's MP3 gate it calls.                              *)
(*                                                                         *)
(* Byte streams are sequences of 0..255.  The code indexes from 0, TLA+    *)
(* sequences from 1: every index named in this module (pos, fs, usable     *)
(* positions, offsets) is the code's 0-based index, and At(data, i) reads  *)
(* data[i] of the code.                                                    *)
(***************************************************************************)
EXTENDS Integers, Sequences, FiniteSets, TLC

----------------------------------------------------------------------------
(* Bytes, slices and bit arithmetic                                        *)

\* a missing file, a key that was not given: no byte string, no string
None == <<-1>>

\* the error of a call that raised nothing
Ok == "ok"

Min(a, b) == IF a <= b THEN a ELSE b
Max(a, b) == IF a >= b THEN a ELSE b

RECURSIVE Pow2(_)
Pow2(e) == IF e = 0 THEN 1 ELSE 2 * Pow2(e - 1)

\* data[i] of the code (0-based)
At(data, i) == data[i + 1]

\* data[a:b] of the code: clipped to the length, empty when a >= b
Slice(data, a, b) ==
    LET hi == Min(b, Len(data))
    IN  IF a >= hi THEN << >> ELSE [j \in 1..(hi - a) |-> data[a + j]]

\* n zero bytes: bytes(n)
Zeros(n) == [j \in 1..n |-> 0]

\* the sequence s repeated n times
RECURSIVE Repeat(_, _)
Repeat(s, n) == IF n = 0 THEN << >> ELSE s \o Repeat(s, n - 1)

\* sum of a sequence of numbers
RECURSIVE SumSeq(_)
SumSeq(s) ==
    IF Len(s) = 0 THEN 0
    ELSE IF Len(s) = 1 THEN s[1]
    ELSE SumSeq(SubSeq(s, 1, Len(s) \div 2))
         + SumSeq(SubSeq(s, (Len(s) \div 2) + 1, Len(s)))

\* concatenation of a sequence of sequences
RECURSIVE Flatten(_)
Flatten(ss) ==
    IF Len(ss) = 0 THEN << >>
    ELSE IF Len(ss) = 1 THEN ss[1]
    ELSE Flatten(SubSeq(ss, 1, Len(ss) \div 2))
         \o Flatten(SubSeq(ss, (Len(ss) \div 2) + 1, Len(ss)))

\* the 8 bits of a byte, most significant first: (byte >> bitpos) & 1 for bitpos = 7..0
ByteBits(b) == [j \in 1..8 |-> (b \div Pow2(8 - j)) % 2]

\* the value of a bit sequence read most significant first: val = (val << 1) | bit
RECURSIVE BitsVal(_)
BitsVal(bs) ==
    IF bs = << >> THEN 0
    ELSE 2 * BitsVal(SubSeq(bs, 1, Len(bs) - 1)) + bs[Len(bs)]

----------------------------------------------------------------------------
(* SIGNATURES, BITRATE_TABLE, SAMPLE_RATE                                  *)

SigA == <<1,0,1,0,1,0,1,0,1,0,1,0,1,0>>
SigB == <<0,1,0,1,0,1,0,1,0,1,0,1,0,1>>

\* SIGNATURES[k] = (start signature, end signature)
SIGNATURES ==
    [k \in 1..4 |->
        CASE k = 1 -> <<SigA, SigA>>
          [] k = 2 -> <<SigB, SigB>>
          [] k = 3 -> <<SigA, SigB>>
          [] k = 4 -> <<SigB, SigA>>]

\* BITRATE_TABLE[version_key][layer][bitrate_index + 1]; 0 stands for None
BITRATE_TABLE(version_key, layer) ==
    IF version_key = "1"
    THEN CASE layer = 1 -> <<0,32,64,96,128,160,192,224,256,288,320,352,384,416,448,0>>
           [] layer = 2 -> <<0,32,48,56,64,80,96,112,128,160,192,224,256,320,384,0>>
           [] layer = 3 -> <<0,32,40,48,56,64,80,96,112,128,160,192,224,256,320,0>>
    ELSE CASE layer = 1 -> <<0,32,48,56,64,80,96,112,128,144,160,176,192,224,256,0>>
           [] layer = 2 -> <<0,8,16,24,32,40,48,56,64,80,96,112,128,144,160,0>>
           [] layer = 3 -> <<0,8,16,24,32,40,48,56,64,80,96,112,128,144,160,0>>

\* SAMPLE_RATE[version][sample_rate_index + 1]; 0 stands for None
SAMPLE_RATE(version) ==
    CASE version = "1"   -> <<44100, 48000, 32000, 0>>
      [] version = "2"   -> <<22050, 24000, 16000, 0>>
      [] version = "2.5" -> <<11025, 12000, 8000, 0>>

----------------------------------------------------------------------------
(* The MP3 structural scanner                                              *)

\* a | b on non-negative integers
RECURSIVE BitOr(_, _)
BitOr(a, b) ==
    IF a = 0 THEN b
    ELSE IF b = 0 THEN a
    ELSE 2 * BitOr(a \div 2, b \div 2) + (IF a % 2 = 1 \/ b % 2 = 1 THEN 1 ELSE 0)

\* calculate_syncsafe: (b[0] << 21) | (b[1] << 14) | (b[2] << 7) | b[3], the
\* bytes not masked to 7 bits
calculate_syncsafe(b) ==
    IF Len(b) # 4 THEN 0
    ELSE BitOr(BitOr(b[1] * 2097152, b[2] * 16384), BitOr(b[3] * 128, b[4]))

\* find_id3v2_end
find_id3v2_end(data) ==
    IF Len(data) < 10 THEN 0
    ELSE IF Slice(data, 0, 3) # <<73, 68, 51>> THEN 0
    ELSE 10 + calculate_syncsafe(Slice(data, 6, 10))

Invalid == [valid |-> FALSE, frame_length |-> 0]

\* the frame_length of lines 151-163.  The code computes int(<float
\* expression>); each quotient is an integer or at least 1/48000 away from
\* one, so the truncated float equals the integer division written here
\* (layer 1: int((12 * br * 1000 / sr + pad) * 4) = 48000 * br \div sr + 4 * pad).
FrameLength(version, layer, bitrate_kbps, sample_rate, padding_bit) ==
    IF layer = 1
    THEN (48000 * bitrate_kbps) \div sample_rate + 4 * padding_bit
    ELSE IF version = "1"
         THEN (144000 * bitrate_kbps) \div sample_rate + padding_bit
         ELSE IF layer = 3
              THEN (72000 * bitrate_kbps) \div sample_rate + padding_bit
              ELSE (144000 * bitrate_kbps) \div sample_rate + padding_bit

\* lines 135-173 of _parse_frame_header, the version and layer decoded
ParseRates(version, version_key, layer, bitrate_index, sample_rate_index, padding_bit) ==
    IF SAMPLE_RATE(version)[sample_rate_index + 1] = 0 THEN Invalid
    ELSE IF BITRATE_TABLE(version_key, layer)[bitrate_index + 1] = 0 THEN Invalid
    ELSE [valid |-> TRUE,
          frame_length |->
              FrameLength(version, layer,
                          BITRATE_TABLE(version_key, layer)[bitrate_index + 1],
                          SAMPLE_RATE(version)[sample_rate_index + 1], padding_bit)]

\* ParseFields taking the reserved version bits 01 for MPEG-1: the header
\* validity C19 must notice the difference
ParseFieldsReservedVersion(h24) ==
    LET sync == (h24 \div 8192) % 2048
        version_bits == (h24 \div 2048) % 4
        layer_bits == (h24 \div 512) % 4
        bitrate_index == (h24 \div 16) % 16
    IN  IF sync # 2047 THEN Invalid
        ELSE IF layer_bits = 0 THEN Invalid
        ELSE IF bitrate_index = 0 \/ bitrate_index = 15 THEN Invalid
        ELSE ParseRates(CASE version_bits = 0 -> "2.5"
                          [] version_bits = 2 -> "2"
                          [] OTHER -> "1",
                        IF version_bits \in {1, 3} THEN "1" ELSE "2",
                        4 - layer_bits, bitrate_index, (h24 \div 4) % 4,
                        (h24 \div 2) % 2)

\* lines 103-133 of _parse_frame_header on h24 = h >> 8: no field of the header
\* lies in its last byte, and h itself (32 bits) does not fit TLC's
\* integers
ParseFields(h24) ==
    LET sync == (h24 \div 8192) % 2048
        version_bits == (h24 \div 2048) % 4
        layer_bits == (h24 \div 512) % 4
        bitrate_index == (h24 \div 16) % 16
    IN  IF sync # 2047 THEN Invalid
        ELSE IF version_bits = 1 THEN Invalid
        ELSE IF layer_bits = 0 THEN Invalid
        ELSE IF bitrate_index = 0 \/ bitrate_index = 15 THEN Invalid
        ELSE ParseRates(CASE version_bits = 0 -> "2.5"
                          [] version_bits = 2 -> "2"
                          [] OTHER -> "1",
                        IF version_bits = 3 THEN "1" ELSE "2",
                        4 - layer_bits, bitrate_index, (h24 \div 4) % 4,
                        (h24 \div 2) % 2)

\* _parse_frame_header: (valid, frame_length)
_parse_frame_header(header_bytes) ==
    IF Len(header_bytes) < 4 THEN Invalid
    ELSE ParseFields(header_bytes[1] * 65536 + header_bytes[2] * 256
                     + header_bytes[3])

\* _parse_frame_header(data[pos : pos + 4])
HeaderAt(data, pos) == _parse_frame_header(Slice(data, pos, pos + 4))

\* the sanity checks of lines 201 and 229 pass
FrameFitsNoEnd(data, pos, frame_len) == ~(frame_len <= 4)

FrameFits(data, pos, frame_len) == ~(frame_len <= 4 \/ pos + frame_len > Len(data))

\* the inner while of find_mp3_frames (lines 224-233): walks the run from cur,
\* returns the number of frames counted
RECURSIVE RunCount(_, _, _, _)
RunCount(data, cur, limit, count) ==
    IF cur + 4 <= limit
    THEN IF ~HeaderAt(data, cur).valid THEN count
         ELSE IF ~FrameFits(data, cur, HeaderAt(data, cur).frame_length) THEN count
         ELSE RunCount(data, cur + HeaderAt(data, cur).frame_length, limit, count + 1)
    ELSE count

\* the for loop of lines 237-240: the count frames of the run, re-parsed from cur2
RECURSIVE RunFrames(_, _, _)
RunFrames(data, cur2, count) ==
    IF count = 0 THEN << >>
    ELSE <<<<cur2, HeaderAt(data, cur2).frame_length>>>>
         \o RunFrames(data, cur2 + HeaderAt(data, cur2).frame_length, count - 1)

\* cur2 after the for loop of lines 237-240
RECURSIVE RunEnd(_, _, _)
RunEnd(data, cur2, count) ==
    IF count = 0 THEN cur2
    ELSE RunEnd(data, cur2 + HeaderAt(data, cur2).frame_length, count - 1)

\* whether the outer while of find_mp3_frames stops stepping by one byte at
\* pos: the header parses and the frame passes the sanity checks of line 201
FrameStartsAt(data, pos) ==
    /\ HeaderAt(data, pos).valid
    /\ FrameFits(data, pos, HeaderAt(data, pos).frame_length)

\* the positions p >= pos, p + 4 <= limit, where a frame starts
FrameStarts(data, pos, limit) == {p \in pos..(limit - 4) : FrameStartsAt(data, p)}

\* the least element of a non-empty set of numbers
MinOf(S) == CHOOSE q \in S : \A q2 \in S : q <= q2

\* valid2 of lines 206-209
Valid2(data, next_pos, limit) ==
    IF next_pos + 4 <= limit THEN HeaderAt(data, next_pos).valid ELSE FALSE

RECURSIVE ScanFrom(_, _, _, _, _)

ScanRunConfident(data, pos, frame_len, count, limit, min_consec, frames) ==
    IF count >= min_consec
    THEN ScanFrom(data, RunEnd(data, pos, count), limit, min_consec,
                  frames \o RunFrames(data, pos, count))
    ELSE ScanFrom(data, pos + 1, limit, min_consec, frames)

\* lines 219-245: a run of count frames starts at pos
ScanRun(data, pos, frame_len, count, limit, min_consec, frames) ==
    IF count >= min_consec
    THEN ScanFrom(data, RunEnd(data, pos, count), limit, min_consec,
                  frames \o RunFrames(data, pos, count))
    ELSE ScanFrom(data, pos + frame_len, limit, min_consec,
                  Append(frames, <<pos, frame_len>>))

\* lines 205-245: a frame of frame_len bytes starts at pos
ScanFrame(data, pos, frame_len, limit, min_consec, frames) ==
    IF ~Valid2(data, pos + frame_len, limit)
    THEN ScanFrom(data, pos + frame_len, limit, min_consec,
                  Append(frames, <<pos, frame_len>>))
    ELSE ScanRun(data, pos, frame_len, RunCount(data, pos + frame_len, limit, 1),
                 limit, min_consec, frames)

\* the outer while of find_mp3_frames at a position where a frame starts
ScanAt(data, pos, limit, min_consec, frames) ==
    ScanFrame(data, pos, HeaderAt(data, pos).frame_length, limit, min_consec, frames)

\* the outer while of find_mp3_frames, from pos with the frames found so far.
\* The iterations that only do pos += 1 (lines 195-203) are taken together:
\* the scan moves to the first position p >= pos, p + 4 <= limit, where a
\* frame starts, and ends when there is none.
ScanFrom(data, pos, limit, min_consec, frames) ==
    IF FrameStarts(data, pos, limit) = {} THEN frames
    ELSE ScanAt(data, MinOf(FrameStarts(data, pos, limit)), limit, min_consec, frames)

\* max_scan = None (the default; no caller in stego.py uses it)
NoMaxScan == -1

\* limit of line 188
ScanLimit(n, start_offset, max_scan) ==
    IF max_scan = NoMaxScan THEN n ELSE Min(n, start_offset + max_scan)

\* find_mp3_frames
find_mp3_frames(data, start_offset, min_consec, max_scan) ==
    ScanFrom(data, start_offset, ScanLimit(Len(data), start_offset, max_scan),
             min_consec, << >>)

\* ScanSkip that leaves pos where it is: the scanner totality C21 must notice
\* the difference
ScanSkipStay(pos) == pos

\* pos += 1 of lines 196 and 202
ScanSkip(pos) == pos + 1

\* The scan window build_protected_indices passes to find_mp3_frames.  The
\* code passes max_scan=2000000; the model scales it down so that a cover
\* longer than the window is a cover of a few hundred bytes.
MAX_SCAN == 100

\* FrameProtected without the last ten bytes of the frame: the protected set
\* C20 must notice the difference
FrameProtectedNoTail(n, fstart, flen) ==
    {i \in fstart..(Min(fstart + 4, n) - 1) : TRUE}
    \cup (IF flen > 4
          THEN {i \in (fstart + 4)..(Min(Min(fstart + 36, fstart + flen), n) - 1) : TRUE}
          ELSE {})

\* the indices one frame (fstart, flen) adds to the protected set, lines 266-285
FrameProtected(n, fstart, flen) ==
    {i \in fstart..(Min(fstart + 4, n) - 1) : TRUE}
    \cup (IF flen > 4
          THEN {i \in (fstart + 4)..(Min(Min(fstart + 36, fstart + flen), n) - 1) : TRUE}
               \cup {i \in Max(fstart + 4, fstart + flen - 10)..(fstart + flen - 1) : i < n}
          ELSE {})

\* lines 256-287 of build_protected_indices, id3_end and frames computed
ProtectedOf(n, id3_end, frames) ==
    (IF id3_end > 0 THEN 0..(id3_end - 1) ELSE {})
    \cup UNION {FrameProtected(n, f[1], f[2]) : f \in {frames[j] : j \in DOMAIN frames}}

\* lines 263-264: the frames scanned from the end of the tag
FramesFrom(data, id3_end) == find_mp3_frames(data, id3_end, 3, MAX_SCAN)

\* lines 256-264
ProtectedFrom(data, id3_end) ==
    ProtectedOf(Len(data), id3_end, FramesFrom(data, id3_end))

\* build_protected_indices
build_protected_indices(data) == ProtectedFrom(data, find_id3v2_end(data))

\* Complement without its filter, every index usable: the protection
\* property C2 must notice the difference
ComplementUnfiltered(n, protected) == [j \in 1..n |-> j - 1]

\* [i for i in range(len(carrier)) if i not in protected]
Complement(n, protected) ==
    SelectSeq([j \in 1..n |-> j - 1], LAMBDA i : i \notin protected)

\* usable_positions of lines 416-417 and 590-591
UsablePositions(data) == Complement(Len(data), build_protected_indices(data))

----------------------------------------------------------------------------
(* Cipher, position RNG, file readers                                      *)

\* str.encode("utf-8") of one code point (code points below 65536, no surrogates)
Utf8Char(cp) ==
    IF cp < 128 THEN <<cp>>
    ELSE IF cp < 2048 THEN <<192 + (cp \div 64), 128 + (cp % 64)>>
    ELSE <<224 + (cp \div 4096), 128 + ((cp \div 64) % 64), 128 + (cp % 64)>>

\* str.encode("utf-8"): a string is the sequence of its code points
Utf8Encode(str) == Flatten([j \in 1..Len(str) |-> Utf8Char(str[j])])

\* vigenere_encrypt: zip(data, cycle(key_bytes)) is empty when key_bytes is
\* empty, so an empty key yields b"" whatever the data
vigenere_encrypt(data, key) ==
    LET key_bytes == Utf8Encode(key)
    IN  IF key_bytes = << >> THEN << >>
        ELSE [j \in 1..Len(data) |->
                 (data[j] + key_bytes[((j - 1) % Len(key_bytes)) + 1]) % 256]

\* vigenere_decrypt shifting in the direction of vigenere_encrypt: the cipher
\* inversion C12 must notice the difference
vigenere_decrypt_forward(data, key) ==
    LET key_bytes == Utf8Encode(key)
    IN  IF key_bytes = << >> THEN << >>
        ELSE [j \in 1..Len(data) |->
                 (data[j] + key_bytes[((j - 1) % Len(key_bytes)) + 1]) % 256]

\* vigenere_decrypt
vigenere_decrypt(data, key) ==
    LET key_bytes == Utf8Encode(key)
    IN  IF key_bytes = << >> THEN << >>
        ELSE [j \in 1..Len(data) |->
                 (data[j] - key_bytes[((j - 1) % Len(key_bytes)) + 1] + 256) % 256]

\* generate_random_position: (a * integer_seed + c) % 2**32 % limit with
\* a = 1664525 = 25 * 65536 + 26125 and c = 1013904223 = 15470 * 65536 + 62303,
\* computed on 16-bit halves because the product exceeds TLC's
\* integers (exact for integer_seed < 82000 and limit < 32000)
generate_random_position(seed, limit) ==
    LET integer_seed == SumSeq(seed)
        x == 26125 * integer_seed
        lo == (x % 65536) + 62303
        hi == (25 * integer_seed + (x \div 65536) + 15470 + (lo \div 65536)) % 65536
    IN  ((hi % limit) * (65536 % limit) + (lo % 65536)) % limit

\* reader.read_mp3_bytes: a missing file (None) and a stream that starts neither
\* with "ID3" nor with FF FB are IOReaderError
read_mp3_bytes(file) ==
    IF file = None THEN [err |-> "IOReaderError", data |-> << >>]
    ELSE IF Slice(file, 0, 3) = <<73, 68, 51>> \/ Slice(file, 0, 2) = <<255, 251>>
         THEN [err |-> Ok, data |-> file]
         ELSE [err |-> "IOReaderError", data |-> << >>]

\* reader.read_secret_file
read_secret_file(file) ==
    IF file = None THEN [err |-> "StegoInputError", content |-> << >>]
    ELSE [err |-> Ok, content |-> file]

----------------------------------------------------------------------------
(* embed                                                                   *)

\* int.to_bytes(4, "little")
ToBytesLE4(n) ==
    <<n % 256, (n \div 256) % 256, (n \div 65536) % 256, (n \div 16777216) % 256>>

\* header = len(payload).to_bytes(4, "little") + bytes([len(filename_bytes)]) + filename_bytes
Header(payload, filename_bytes) ==
    ToBytesLE4(Len(payload)) \o <<Len(filename_bytes)>> \o filename_bytes

\* combined_bit_stream: start signature, header + payload MSB first, end signature
combined_bit_stream(k, header, payload) ==
    LET body == header \o payload
    IN  SIGNATURES[k][1]
        \o Flatten([j \in 1..Len(body) |-> ByteBits(body[j])])
        \o SIGNATURES[k][2]

\* WriteLsb with a mask one bit too wide: the output-format property C3 must
\* notice the difference
WriteLsbWideMask(byte, k, bits_val) ==
    (byte \div Pow2(k + 1)) * Pow2(k + 1) + bits_val

\* carrier[carrier_index] = (carrier[carrier_index] & mask) | bits_val with
\* mask = (0xFF << bits_per_sample) & 0xFF; bits_val < 2^bits_per_sample
WriteLsb(byte, k, bits_val) == (byte \div Pow2(k)) * Pow2(k) + bits_val

\* EmbedStep with the group packed last bit first: the embedding order C18
\* must notice the difference
EmbedStepLastBitFirst(carrier, usable_positions, bits, k, start_offset, position_index) ==
    LET total_positions == Len(usable_positions)
        actual_position_index == (start_offset + position_index) % total_positions
        carrier_index == usable_positions[actual_position_index + 1]
        done == position_index * k
        group == SubSeq(bits, done + 1, Min(done + k, Len(bits)))
    IN  [carrier EXCEPT ![carrier_index + 1] =
            WriteLsb(carrier[carrier_index + 1], k,
                     BitsVal([j \in 1..Len(group) |-> group[Len(group) + 1 - j]]))]

\* One iteration of the embedding loop (lines 458-482), the one numbered
\* position_index: the next group of at most k bits of the stream goes to
\* usable_positions[(start_offset + position_index) % total_positions].  A
\* group cut short by the end of the stream (StopIteration) is written as read,
\* unshifted.
EmbedStep(carrier, usable_positions, bits, k, start_offset, position_index) ==
    LET total_positions == Len(usable_positions)
        actual_position_index == (start_offset + position_index) % total_positions
        carrier_index == usable_positions[actual_position_index + 1]
        done == position_index * k
        group == SubSeq(bits, done + 1, Min(done + k, Len(bits)))
    IN  [carrier EXCEPT ![carrier_index + 1] =
            WriteLsb(carrier[carrier_index + 1], k, BitsVal(group))]

\* the iterations from, from + 1, ..., to - 1 of the loop, in this order (the
\* test on first has the first half evaluated before the second half starts)
RECURSIVE EmbedSteps(_, _, _, _, _, _, _)
EmbedSteps(carrier, usable_positions, bits, k, start_offset, from, to) ==
    IF to <= from THEN carrier
    ELSE IF to = from + 1
    THEN EmbedStep(carrier, usable_positions, bits, k, start_offset, from)
    ELSE LET mid == (from + to) \div 2
             first == EmbedSteps(carrier, usable_positions, bits, k,
                                 start_offset, from, mid)
         IN  IF Len(first) = 0 THEN first
             ELSE EmbedSteps(first, usable_positions, bits, k, start_offset, mid, to)

\* the number of iterations of the embedding loop that write, for a stream of
\* n bits: with n < k * total_positions the iteration that meets the end of
\* the stream is the last one
Iterations(n, k, total_positions) ==
    IF n < k * total_positions THEN (n \div k) + 1 ELSE total_positions

\* The embedding loop: for _ in range(total_positions), left early by the
\* return of the StopIteration handler.  With a stream shorter than
\* k * total_positions bits the iteration that meets the end of the stream is
\* the last one, and it writes too; both exits write the carrier.
EmbedLoop(carrier, usable_positions, bits, k, start_offset) ==
    EmbedSteps(carrier, usable_positions, bits, k, start_offset, 0,
               Iterations(Len(bits), k, Len(usable_positions)))

\* total_bits of lines 420-422
TotalBits(k, header, payload) ==
    Len(SIGNATURES[k][1]) + Len(SIGNATURES[k][2]) + (Len(header) + Len(payload)) * 8

\* start_offset of lines 446-449, 503-505 and 600-603
StartOffset(random_position, key, total_positions) ==
    IF random_position /\ key # None
    THEN generate_random_position(key, total_positions)
    ELSE 0

\* EmbedFail for an embed that opens output_path for writing before its
\* checks: the no-output property C7 must notice the difference
EmbedFailTruncating(e) == [err |-> e, written |-> TRUE, out |-> << >>]

\* embed leaves by a raise: write_mp3_bytes was not reached
EmbedFail(e) == [err |-> e, written |-> FALSE, out |-> << >>]

\* EmbedInto with the capacity test >= in place of >: the capacity property
\* C6 must notice the difference
EmbedIntoStrict(carrier, usable_positions, header, payload, bits_per_sample, key, random_position) ==
    IF TotalBits(bits_per_sample, header, payload)
           >= Len(usable_positions) * bits_per_sample
    THEN [err |-> "InsufficientCapacity", written |-> FALSE, out |-> << >>]
    ELSE [err |-> Ok, written |-> TRUE,
          out |-> EmbedLoop(carrier, usable_positions,
                            combined_bit_stream(bits_per_sample, header, payload),
                            bits_per_sample,
                            StartOffset(random_position, key, Len(usable_positions)))]

\* lines 416-485 of embed: the capacity check, the embedding loop and the write
EmbedInto(carrier, usable_positions, header, payload, bits_per_sample, key, random_position) ==
    IF TotalBits(bits_per_sample, header, payload)
           > Len(usable_positions) * bits_per_sample
    THEN EmbedFail("InsufficientCapacity")
    ELSE [err |-> Ok, written |-> TRUE,
          out |-> EmbedLoop(carrier, usable_positions,
                            combined_bit_stream(bits_per_sample, header, payload),
                            bits_per_sample,
                            StartOffset(random_position, key, Len(usable_positions)))]

\* lines 386-417 of embed: the filename check, the header, the usable positions
EmbedPayload(carrier, payload, filename_bytes, bits_per_sample, key, random_position) ==
    IF Len(filename_bytes) > 255 THEN EmbedFail("FilenameTooLong")
    ELSE EmbedInto(carrier, UsablePositions(carrier),
                   Header(payload, filename_bytes), payload, bits_per_sample,
                   key, random_position)

\* lines 381-397 of embed: the two reads and the encryption of the payload
EmbedRead(rd, message_file, filename, bits_per_sample, encrypt, key, random_position) ==
    IF rd.err # Ok THEN EmbedFail(rd.err)
    ELSE IF message_file.err # Ok THEN EmbedFail(message_file.err)
    ELSE EmbedPayload(rd.data,
                      IF encrypt /\ key # None
                      THEN vigenere_encrypt(message_file.content, key)
                      ELSE message_file.content,
                      Utf8Encode(filename), bits_per_sample, key, random_position)

\* embed(audio_path, file_to_hide_path, output_path, bits_per_sample, encrypt,
\* key, random_position): audio and secret are the contents of the two input
\* files (None: no such file), filename the basename of file_to_hide_path.
\* Returns the error raised (Ok: none) and the bytes written to
\* output_path (written = FALSE: write_mp3_bytes was not reached).
embed(audio, secret, filename, bits_per_sample, encrypt, key, random_position) ==
    IF ~(1 <= bits_per_sample /\ bits_per_sample <= 4)
    THEN EmbedFail("InvalidParameter")
    ELSE IF encrypt /\ key = None THEN EmbedFail("MissingKey")
    ELSE IF random_position /\ key = None THEN EmbedFail("MissingKey")
    ELSE EmbedRead(read_mp3_bytes(audio), read_secret_file(secret), filename,
                   bits_per_sample, encrypt, key, random_position)

----------------------------------------------------------------------------
(* detect_bits_per_sample and extract                                      *)

\* the low k bits of one carrier byte, most significant first (lines 615-620,
\* 537-547)
LsbBits(byte, k) == [j \in 1..k |-> ((byte % Pow2(k)) \div Pow2(k - j)) % 2]

\* the first 14 bits detect_bits_per_sample unpacks for one candidate width:
\* positions_needed = ceil(14 / k) positions from start_offset, circularly,
\* stopping at total_positions
ProbeBits(stego, usable_positions, start_offset, k) ==
    LET total_positions == Len(usable_positions)
        bits_needed == Len(SIGNATURES[k][1])
        positions_needed == (bits_needed + k - 1) \div k
        npos == Min(positions_needed, total_positions)
        all == Flatten([pos_idx \in 1..npos |->
                  LsbBits(At(stego, usable_positions[
                              ((start_offset + pos_idx - 1) % total_positions) + 1]), k)])
    IN  SubSeq(all, 1, Min(Len(all), bits_needed))

\* whether the loop body of detect_bits_per_sample returns candidate k
ProbeMatches(stego, usable_positions, start_offset, k) ==
    /\ Len(usable_positions) * k >= Len(SIGNATURES[k][1])
    /\ ProbeBits(stego, usable_positions, start_offset, k) = SIGNATURES[k][1]

\* the for loop of detect_bits_per_sample: the first k of 1, 2, 3, 4 whose
\* start signature is read back, 0 when there is none
FirstMatch(stego, usable_positions, start_offset) ==
    IF ProbeMatches(stego, usable_positions, start_offset, 1) THEN 1
    ELSE IF ProbeMatches(stego, usable_positions, start_offset, 2) THEN 2
    ELSE IF ProbeMatches(stego, usable_positions, start_offset, 3) THEN 3
    ELSE IF ProbeMatches(stego, usable_positions, start_offset, 4) THEN 4
    ELSE 0

\* detect_bits_per_sample: 0 stands for the ValueError raised when no
\* signature is read back.  The start offset is computed before the loop, so
\* with random_position, a key and no usable position at all the modulo raises
\* ZeroDivisionError (-1).
detect_bits_per_sample(stego, usable_positions, random_position, key) ==
    IF random_position /\ key # None /\ Len(usable_positions) = 0 THEN -1
    ELSE FirstMatch(stego, usable_positions,
                    StartOffset(random_position, key, Len(usable_positions)))

\* bit_stream_generator, all of it: the low bits_per_sample bits of the usable
\* positions from start_offset on, circularly, for 2 * total_positions positions
bit_stream_generator(stego, usable_positions, bits_per_sample, start_offset) ==
    LET total_positions == Len(usable_positions)
    IN  [j \in 1..(2 * total_positions * bits_per_sample) |->
            LsbBits(At(stego, usable_positions[
                        ((start_offset + ((j - 1) \div bits_per_sample))
                            % total_positions) + 1]),
                    bits_per_sample)[((j - 1) % bits_per_sample) + 1]]

\* read_bits(8) at bit offset off of the stream (off counts the bits consumed)
ReadByte(stream, off) == BitsVal(SubSeq(stream, off + 1, off + 8))

\* bytes(read_bits(8) for _ in range(n)) from bit offset off
ReadBytes(stream, off, n) == [j \in 1..n |-> ReadByte(stream, off + 8 * (j - 1))]

\* One character of bytes.decode("utf-8"), strict, at index i (1-based):
\* ok = FALSE for UnicodeDecodeError, else its code point and the index after it
Utf8CharAt(b, i) ==
    LET c == b[i]
        cont(j) == j <= Len(b) /\ b[j] >= 128 /\ b[j] <= 191
        need == CASE c < 128 -> 1
                  [] c >= 194 /\ c <= 223 -> 2
                  [] c >= 224 /\ c <= 239 -> 3
                  [] c >= 240 /\ c <= 244 -> 4
                  [] OTHER -> 0
        wellformed ==
            CASE need = 1 -> TRUE
              [] need = 2 -> cont(i + 1)
              [] need = 3 -> /\ cont(i + 1) /\ cont(i + 2)
                             /\ (c = 224 => b[i + 1] >= 160)
                             /\ (c = 237 => b[i + 1] <= 159)
              [] need = 4 -> /\ cont(i + 1) /\ cont(i + 2) /\ cont(i + 3)
                             /\ (c = 240 => b[i + 1] >= 144)
                             /\ (c = 244 => b[i + 1] <= 143)
              [] OTHER -> FALSE
        cp == CASE need = 1 -> c
                [] need = 2 -> (c - 192) * 64 + (b[i + 1] - 128)
                [] need = 3 -> (c - 224) * 4096 + (b[i + 1] - 128) * 64
                               + (b[i + 2] - 128)
                [] OTHER -> (c - 240) * 262144 + (b[i + 1] - 128) * 4096
                            + (b[i + 2] - 128) * 64 + (b[i + 3] - 128)
    IN  IF wellformed THEN [ok |-> TRUE, str |-> <<cp>>, next |-> i + need]
        ELSE [ok |-> FALSE, str |-> << >>, next |-> i]

\* at most n characters decoded from index i on
RECURSIVE Utf8DecodeFrom(_, _, _)
Utf8DecodeFrom(b, i, n) ==
    IF i > Len(b) \/ n = 0 THEN [ok |-> TRUE, str |-> << >>, next |-> i]
    ELSE IF n = 1 THEN Utf8CharAt(b, i)
    ELSE LET l == Utf8DecodeFrom(b, i, n \div 2)
             r == Utf8DecodeFrom(b, l.next, n - (n \div 2))
         IN  IF ~l.ok THEN l
             ELSE [ok |-> r.ok, str |-> l.str \o r.str, next |-> r.next]

\* bytes.decode("utf-8"), strict
Utf8Decode(b) == Utf8DecodeFrom(b, 1, Len(b))

\* "extracted_file.bin"
FallbackName ==
    <<101,120,116,114,97,99,116,101,100,95,102,105,108,101,46,98,105,110>>

\* str(counter)
RECURSIVE IntToStr(_)
IntToStr(n) ==
    IF n < 10 THEN <<48 + n>> ELSE IntToStr(n \div 10) \o <<48 + (n % 10)>>

\* index of the last occurrence of ch in str, 0 when there is none (rfind + 1)
RFind(str, ch) ==
    LET at == {j \in 1..Len(str) : str[j] = ch}
    IN  IF at = {} THEN 0 ELSE CHOOSE j \in at : \A j2 \in at : j2 <= j

\* os.path.splitext: the extension starts at the last dot of the last path
\* component, leading dots of the component not counted
splitext(path) ==
    LET sepIndex == RFind(path, 47)
        dotIndex == RFind(path, 46)
    IN  IF dotIndex > sepIndex
           /\ \E j \in (sepIndex + 1)..(dotIndex - 1) : path[j] # 46
        THEN <<SubSeq(path, 1, dotIndex - 1), SubSeq(path, dotIndex, Len(path))>>
        ELSE <<path, << >> >>

\* os.path.exists(os.path.join(output_path, name)) for a name without a path
\* separator: the empty name is the directory itself, which makedirs created
ExistsIn(dir, name) == name = << >> \/ name \in DOMAIN dir

\* base_counter ext for the name extract read
NumberedName(filename, counter) ==
    splitext(filename)[1] \o <<95>> \o IntToStr(counter) \o splitext(filename)[2]

\* the while loop of lines 719-721: the first base_counter ext that does not exist
RECURSIVE FreeName(_, _, _, _)
FreeName(dir, base, ext, counter) ==
    LET candidate == base \o <<95>> \o IntToStr(counter) \o ext
    IN  IF ExistsIn(dir, candidate) THEN FreeName(dir, base, ext, counter + 1)
        ELSE candidate

\* os.path.join(a, b) of lines 713 and 720 on a POSIX system: an absolute b
\* replaces a
PathJoin(a, b) ==
    IF Len(b) > 0 /\ b[1] = 47 THEN b
    ELSE IF Len(a) = 0 \/ a[Len(a)] = 47 THEN a \o b
    ELSE a \o <<47>> \o b

\* OutputName without the search for a free name: the collision property C15
\* must notice the difference
OutputNameAsGiven(dir, filename) == filename

\* lines 713-722: the name extract writes for filename
OutputName(dir, filename) ==
    IF ExistsIn(dir, filename)
    THEN FreeName(dir, splitext(filename)[1], splitext(filename)[2], 1)
    ELSE filename

\* lines 667-674: the filename, or the fallback name when decoding fails
DecodeName(decoded) == IF decoded.ok THEN decoded.str ELSE FallbackName

\* the end signature read back by lines 691-701: at most as many bits as the
\* stream still has
ExtractedEnd(stream, end_off, end_sig) ==
    SubSeq(stream, end_off + 1, Min(Len(stream), end_off + Len(end_sig)))

\* extract leaves by a raise: nothing was written
ExtractFail(e) == [err |-> e, bits_per_sample |-> 0, payload_len |-> 0,
                   filename |-> << >>, output_file |-> << >>,
                   payload |-> << >>, end_ok |-> FALSE]

\* lines 683-729 of extract: decryption, the end signature (a mismatch only
\* prints a warning), the output name and the write
ExtractBody(stream, bits_per_sample, payload_len, filename, raw, end_off, dir, encrypted, key) ==
    [err |-> Ok, bits_per_sample |-> bits_per_sample,
     payload_len |-> payload_len, filename |-> filename,
     output_file |-> OutputName(dir, filename),
     payload |-> IF encrypted /\ key # None THEN vigenere_decrypt(raw, key) ELSE raw,
     end_ok |-> (ExtractedEnd(stream, end_off, SIGNATURES[bits_per_sample][2])
                    = SIGNATURES[bits_per_sample][2])]

\* lines 651-680 of extract with the five header bytes read: the filename and
\* the payload.  There is no check of payload_len between line 656 and the
\* reads of line 680.  The length is taken as its low three bytes and its top
\* byte: a length of 2^24 bytes or more cannot be served by the stream of a
\* model cover and ends in the "Unexpected end of data" error of read_bits.
ExtractHeader(stream, bits_per_sample, len_bytes, filename_len, dir, encrypted, key) ==
    LET name_off == Len(SIGNATURES[bits_per_sample][1]) + 40
        payload_off == name_off + 8 * filename_len
        payload_len == len_bytes[1] + 256 * len_bytes[2] + 65536 * len_bytes[3]
        end_off == payload_off + 8 * payload_len
    IN  IF Len(stream) < payload_off THEN ExtractFail("TruncatedStream")
        ELSE IF len_bytes[4] > 0 \/ Len(stream) < end_off
        THEN ExtractFail("TruncatedStream")
        ELSE ExtractBody(stream, bits_per_sample, payload_len,
                         DecodeName(Utf8Decode(ReadBytes(stream, name_off,
                                                         filename_len))),
                         ReadBytes(stream, payload_off, payload_len), end_off,
                         dir, encrypted, key)

\* lines 627-661 of extract: the start signature skipped, the length field and
\* the filename length read
ExtractStream(stream, bits_per_sample, dir, encrypted, key) ==
    IF Len(stream) < Len(SIGNATURES[bits_per_sample][1]) + 40
    THEN ExtractFail("TruncatedStream")
    ELSE ExtractHeader(stream, bits_per_sample,
                       ReadBytes(stream, Len(SIGNATURES[bits_per_sample][1]), 4),
                       ReadByte(stream, Len(SIGNATURES[bits_per_sample][1]) + 32),
                       dir, encrypted, key)

\* lines 597-627 of extract, the width detected
ExtractWidth(stego, usable_positions, bits_per_sample, dir, encrypted, key, random_position) ==
    IF bits_per_sample = -1 THEN ExtractFail("ZeroDivisionError")
    ELSE IF bits_per_sample = 0 THEN ExtractFail("SignatureNotFound")
    ELSE ExtractStream(
             bit_stream_generator(stego, usable_positions, bits_per_sample,
                 StartOffset(random_position, key, Len(usable_positions))),
             bits_per_sample, dir, encrypted, key)

\* lines 590-596 of extract
ExtractFrom(stego, usable_positions, dir, encrypted, key, random_position) ==
    ExtractWidth(stego, usable_positions,
                 detect_bits_per_sample(stego, usable_positions, random_position, key),
                 dir, encrypted, key, random_position)

\* lines 587-591 of extract
ExtractRead(rd, dir, encrypted, key, random_position) ==
    IF rd.err # Ok THEN ExtractFail(rd.err)
    ELSE ExtractFrom(rd.data, UsablePositions(rd.data), dir, encrypted, key,
                     random_position)

\* extract(stego_audio_path, output_path, encrypted, key, random_position) on
\* the file content stego_file (None: no such file) and the output directory
\* dir (file name -> content).  err is the error raised (Ok: none);
\* on success output_file is the name written in dir and payload its content.
\* The only key check is that of line 583.
extract(stego_file, dir, encrypted, key, random_position) ==
    IF encrypted /\ key = None THEN ExtractFail("MissingKey")
    ELSE ExtractRead(read_mp3_bytes(stego_file), dir, encrypted, key,
                     random_position)

----------------------------------------------------------------------------
(* psnr.calculate_psnr                                                     *)

\* A value of calculate_psnr: kind "inf" is float("inf"), kind "nan" a NaN,
\* kind "finite" the float 10 * log10(num / den) given by the exact ratio
\* num / den = 1 / mse, kind "StegoCompareError" the exception raised.
PsnrValue(kind, num, den) == [kind |-> kind, num |-> num, den |-> den]

Abs(x) == IF x < 0 THEN -x ELSE x

\* abs(a).max() of line 17 for a non-empty array
MaxOfAbs(a) == CHOOSE m \in {Abs(a[j]) : j \in 1..Len(a)} : \A j \in 1..Len(a) : Abs(a[j]) <= m

\* a[j] under numpy broadcasting of a one-element array
Broadcast(a, j) == IF Len(a) = 1 THEN a[1] ELSE a[j]

\* the sum of the squares of original - modified over n elements, in units of
\* 1 / max_abs^2 (both arrays are divided by max_abs on lines 18-19)
SumSquares(original, modified, n) ==
    SumSeq([j \in 1..n |->
              (Broadcast(original, j) - Broadcast(modified, j))
                  * (Broadcast(original, j) - Broadcast(modified, j))])

\* lines 17-29 for arrays that subtract to n elements.  With max_abs = 0 both
\* arrays are all zero and the divisions of lines 18-19 are 0.0 / 0.0: numpy
\* stores NaN (a RuntimeWarning, no exception), mse is NaN, "mse == 0" is
\* false and math.log10(1.0 / NaN) is NaN.
PsnrOf(max_abs, sum_squares, n) ==
    IF max_abs = 0 THEN PsnrValue("nan", 0, 0)
    ELSE IF sum_squares = 0 THEN PsnrValue("inf", 0, 0)
    ELSE PsnrValue("finite", n * max_abs * max_abs, sum_squares)

\* calculate_psnr(original_samples, modified_samples) on one-dimensional
\* integer arrays.  .max() of an empty array and the subtraction of arrays of
\* different lengths, neither of length 1, raise ValueError, wrapped by line 33.
calculate_psnr(original, modified) ==
    IF Len(original) = 0 \/ Len(modified) = 0
    THEN PsnrValue("StegoCompareError", 0, 0)
    ELSE IF Len(original) # Len(modified) /\ Len(original) # 1 /\ Len(modified) # 1
    THEN PsnrValue("StegoCompareError", 0, 0)
    ELSE PsnrOf(Max(MaxOfAbs(original), MaxOfAbs(modified)),
                SumSquares(original, modified, Max(Len(original), Len(modified))),
                Max(Len(original), Len(modified)))

\* longest sample array, and largest sample magnitude, of the model
MaxSamples == 2
MaxAmp == 2

\* the sample arrays of the model
SampleArrays ==
    UNION {[1..n -> (-MaxAmp)..MaxAmp] : n \in 0..MaxSamples}

----------------------------------------------------------------------------
(* Input files of the model                                                *)

\* longest secret file of the model, in bytes
MaxSecretLen == 3

\* an ID3v2 header with an empty tag body: "ID3", version 3.0, flags 0, size 0
Id3Tag == <<73, 68, 51, 3, 0, 0, 0, 0, 0, 0>>

\* n bytes that are not part of any frame.  Every byte is below 0xC8, so no
\* rewrite of its low four bits makes it 0xFF.
Junk(n) == [j \in 1..n |-> (29 * j + 7) % 200]

\* a frame: its 4 header bytes and flen - 4 body bytes
Frame(hdr, flen) == hdr \o [j \in 1..(flen - 4) |-> (53 * j + 11) % 256]

\* MPEG-2 Layer III, 8 kbps, 24 kHz: frame_length 24
Frame24 == Frame(<<255, 243, 20, 0>>, 24)
\* MPEG-1 Layer III, 32 kbps, 48 kHz: frame_length 96
Frame96 == Frame(<<255, 251, 20, 0>>, 96)

\* tag, one 24-byte frame, 21 bytes after it
CoverA == Id3Tag \o Frame24 \o Junk(21)
\* tag, one 24-byte frame, 42 bytes after it
CoverB == Id3Tag \o Frame24 \o Junk(42)
\* two 96-byte frames, no tag
CoverC == Frame96 \o Frame96
\* FF FB followed by a bitrate index of 0: passes the reader, holds no frame
CoverD == <<255, 251, 0, 0>> \o Junk(26)
\* tag and six back-to-back 24-byte frames: longer than the scan window
CoverE == Id3Tag \o Repeat(Frame24, 6)

\* tag and 35000 bytes that hold no frame: room for the long secret at k = 4
CoverF == Id3Tag \o Zeros(35000)

\* three back-to-back 24-byte frames, no tag: an MPEG-2 stream, it starts FF F3
CoverG == Repeat(Frame24, 3)

\* tag and 40 bytes that hold no frame; the bytes F0 F0 10 00 at index 26 are
\* a frame header of 24 bytes but for their low four bits
CoverS == Id3Tag \o Junk(16) \o <<240, 240, 16, 0>> \o Junk(20)

Covers == {CoverA, CoverB, CoverC, CoverD, CoverE}

\* a file the reader rejects
NotMp3 == <<82, 73, 70, 70, 0, 0>>

\* the secret files: the prefixes of two byte patterns
SecretPattern(p, n) == [j \in 1..n |-> IF p = 1 THEN (104 + 7 * j) % 256
                                              ELSE (255 - 85 * j) % 256]
Secrets == {SecretPattern(p, n) : p \in 1..2, n \in 0..MaxSecretLen}

\* a secret of 0x4444 = 17476 bytes: its length field starts with the bytes
\* 0x44, 0x44
LongSecret == SecretPattern(1, 17476)

\* a secret of two bytes whose bits, embedded at width 4 under a one-letter
\* name, put the nibbles F, 3, 4 into the usable positions 17, 18 and 19
HeaderSecret == <<60, 208>>

\* basenames of the secret path, as code points: "s", and a name of 128
\* two-byte characters (U+00E9), 256 bytes in UTF-8
ShortName == <<115>>
\* "s.t"
DotName == <<115, 46, 116>>
LongName == [j \in 1..128 |-> 233]

\* keys, as code points: "", "ab", "b", and U+00FC (two bytes in UTF-8)
EmptyKey == << >>
KeyAB == <<97, 98>>
KeyB == <<98>>
\* "ba", an anagram of "ab"
KeyBA == <<98, 97>>
KeyU == <<252>>

\* the keys of at least one byte
RealKeys == {KeyAB, KeyB, KeyU}

\* a stego file used as a cover: CoverC after an embed of the one-byte secret
\* at k = 4 under the key "b" with random position
CoverH == embed(CoverC, SecretPattern(1, 1), ShortName, 4, FALSE, KeyB, TRUE).out

\* what output_path holds before embed: nothing, or an older file
OldOutput == <<79, 76, 68>>

\* the bits of a stego stream of width 4 cut off after one cycle of CoverA: the
\* start signature, a header declaring a payload of 10 bytes named "s" (142
\* bits with the signature) and the 22 bits of payload that still fit
OverlongBits ==
    SubSeq(SIGNATURES[4][1]
           \o Flatten([j \in 1..9 |->
                  ByteBits(<<10, 0, 0, 0, 1, 115, 165, 60, 119>>[j])]),
           1, 84)

\* a stego file at output_path whose header declares more than its usable
\* positions hold: OverlongBits in the low 4 bits of the 21 usable positions
\* of CoverA
OverlongStego == EmbedLoop(CoverA, UsablePositions(CoverA), OverlongBits, 4, 0)

\* "../x" and "/tmp/x": names no embed writes (it takes the basename of the
\* secret's path), but which a stego file can carry
TraversalName == <<46, 46, 47, 120>>
AbsoluteName == <<47, 116, 109, 112, 47, 120>>

\* a stego file at output_path made by hand: the stream of the one-byte secret
\* under the given name, at width 4 in the usable positions of CoverB
CraftedStego(name) ==
    EmbedLoop(CoverB, UsablePositions(CoverB),
              combined_bit_stream(4, Header(<<111>>, name), <<111>>), 4, 0)

\* the embed calls of the model
EmbedCalls ==
    [audio : Covers, secret : Secrets, filename : {ShortName},
     bits_per_sample : 1..4, encrypt : BOOLEAN, key : {None, EmptyKey, KeyAB},
     random_position : BOOLEAN, before : {None}]
    \cup
    [audio : {CoverA, CoverG, NotMp3, None}, secret : {SecretPattern(1, 1), None},
     filename : {ShortName, LongName}, bits_per_sample : {0, 1, 5},
     encrypt : BOOLEAN, key : {None, KeyAB}, random_position : BOOLEAN,
     before : {None, OldOutput}]
    \cup
    [audio : {CoverF}, secret : {LongSecret}, filename : {ShortName},
     bits_per_sample : {4}, encrypt : {FALSE}, key : {None},
     random_position : {FALSE}, before : {None}]
    \cup
    [audio : {CoverB, CoverC, CoverH},
     secret : {SecretPattern(1, 1), SecretPattern(2, MaxSecretLen)},
     filename : {ShortName}, bits_per_sample : 1..4, encrypt : BOOLEAN,
     key : {KeyB, KeyU}, random_position : {TRUE}, before : {None}]
    \cup
    [audio : {CoverC}, secret : {SecretPattern(1, 1), SecretPattern(2, MaxSecretLen)},
     filename : {DotName}, bits_per_sample : 1..4, encrypt : BOOLEAN,
     key : {None, KeyB}, random_position : BOOLEAN, before : {None}]
    \cup
    [audio : {None, CoverA}, secret : {SecretPattern(1, 1)}, filename : {ShortName},
     bits_per_sample : {1, 4}, encrypt : {FALSE}, key : {None, KeyB},
     random_position : {FALSE}, before : {OverlongStego}]
    \cup
    [audio : {CoverS}, secret : {HeaderSecret, SecretPattern(1, 2)},
     filename : {ShortName}, bits_per_sample : {2, 4}, encrypt : {FALSE},
     key : {None}, random_position : {FALSE}, before : {None}]
    \cup
    [audio : {None}, secret : {SecretPattern(1, 1)}, filename : {ShortName},
     bits_per_sample : {4}, encrypt : {FALSE}, key : {None},
     random_position : {FALSE},
     before : {CraftedStego(TraversalName), CraftedStego(AbsoluteName)}]

----------------------------------------------------------------------------
(* The state machine: one embed call, then one extract call on its output  *)

VARIABLES
    cover,        \* content of the file at audio_path (None: no such file)
    secret,       \* content of the file at file_to_hide_path (None: no such file)
    call,         \* the arguments of the embed call
    outputFile,   \* content of the file at output_path (None: no such file)
    outputBefore, \* what output_path held when embed was called
    embedErr,     \* the error embed raised; Ok: it returned; "notrun" before
    xcall,        \* the arguments of the extract call, and in dir the files
                  \* of the output directory when it was called
    result,       \* what extract returned or raised
    outDir,       \* the files of extract's output directory, name -> content
    pc,
    original_samples,  \* the arguments of a calculate_psnr call
    modified_samples,
    psnr,              \* what calculate_psnr returned or raised
    frame_header,      \* the argument of a _parse_frame_header call
    parsed,            \* what _parse_frame_header returned
    mp3_data,          \* the argument of a build_protected_indices call
    protected_indices, \* what build_protected_indices returned
    scan,              \* a find_mp3_frames call: its arguments, its locals
                       \* and the loop it is in
    extract_output_folder, \* the folder the GUI extracts to, name -> content
    worker             \* the extract_worker threads of the GUI: where each
                       \* is in extract, and its locals

\* the variables of the calls of the functions that are checked on their own
fnvars == <<original_samples, modified_samples, psnr, frame_header, parsed,
            mp3_data, protected_indices, scan, extract_output_folder, worker>>

\* the variables of the extract_worker threads
guivars == <<extract_output_folder, worker>>

\* the variables of the embed and extract calls
stegovars == <<cover, secret, call, outputFile, outputBefore, embedErr, xcall,
               result, outDir>>

vars == <<cover, secret, call, outputFile, outputBefore, embedErr, xcall,
          result, outDir, pc, fnvars>>

\* no call of a function checked on its own is under way
PsnrIdle ==
    /\ original_samples = << >>
    /\ modified_samples = << >>
    /\ psnr = PsnrValue("notrun", 0, 0)

HeaderIdle ==
    /\ frame_header = << >>
    /\ parsed = Invalid

ProtectIdle ==
    /\ mp3_data = << >>
    /\ protected_indices = {}

\* a find_mp3_frames call at line 191, about to test the outer while.  loop is
\* "outer", "run" (the inner while of lines 224-233) or "emit" (the for of
\* lines 237-240); emitted counts the iterations of the for loop.
ScanStart(data, start_offset, min_consec, max_scan) ==
    [data |-> data, start_offset |-> start_offset, min_consec |-> min_consec,
     max_scan |-> max_scan, pos |-> start_offset, frames |-> << >>,
     loop |-> "outer", frame_len |-> 0, count |-> 0, cur |-> 0, cur2 |-> 0,
     emitted |-> 0]

ScanIdle == scan = ScanStart(<< >>, 0, 3, NoMaxScan)

\* the extract_worker threads of the model
Workers == 1..2

\* a thread that perform_extract has not started yet
WorkerStart(filename, payload) ==
    [at |-> "idle", filename |-> filename, payload |-> payload,
     output_file |-> << >>, counter |-> 0]

GuiIdle ==
    /\ extract_output_folder = [name \in {} |-> << >>]
    /\ worker = [w \in Workers |-> WorkerStart(<< >>, << >>)]

FnIdle == PsnrIdle /\ HeaderIdle /\ ProtectIdle /\ ScanIdle /\ GuiIdle

NoResult == [err |-> "notrun", bits_per_sample |-> 0, payload_len |-> 0,
             filename |-> << >>, output_file |-> << >>, payload |-> << >>,
             end_ok |-> FALSE]

EmptyDir == [name \in {} |-> << >>]

Init ==
    \E c \in EmbedCalls :
        /\ cover = c.audio
        /\ secret = c.secret
        /\ call = [filename |-> c.filename, bits_per_sample |-> c.bits_per_sample,
                   encrypt |-> c.encrypt, key |-> c.key,
                   random_position |-> c.random_position]
        /\ outputFile = c.before
        /\ outputBefore = c.before
        /\ embedErr = "notrun"
        /\ xcall = [encrypted |-> FALSE, key |-> None, random_position |-> FALSE,
                    dir |-> EmptyDir]
        /\ result = NoResult
        /\ outDir = EmptyDir
        /\ pc = "start"
        /\ FnIdle

\* embed(audio_path, file_to_hide_path, output_path, ...): the only write is
\* write_mp3_bytes(output_path, carrier), a whole-file replacement
Embed ==
    /\ pc = "start"
    /\ LET r == embed(cover, secret, call.filename, call.bits_per_sample,
                      call.encrypt, call.key, call.random_position)
       IN  /\ embedErr' = r.err
           /\ outputFile' = IF r.written THEN r.out ELSE outputFile
    /\ pc' = "embedded"
    /\ UNCHANGED <<cover, secret, call, outputBefore, xcall, result, outDir>>
    /\ UNCHANGED fnvars

\* the extract calls made on the output of embed: the flags and key of the
\* embed call, any flags without a key, or the flags of the embed call with
\* another key
ExtractCalls ==
    {[encrypted |-> call.encrypt, key |-> call.key,
      random_position |-> call.random_position]}
    \cup [encrypted : BOOLEAN, key : {None}, random_position : BOOLEAN]
    \cup (IF call.key \in RealKeys
          THEN [encrypted : {call.encrypt}, key : RealKeys \ {call.key},
                random_position : {call.random_position}]
          ELSE {})
    \cup (IF call.key = KeyAB
          THEN {[encrypted |-> call.encrypt, key |-> KeyBA,
                 random_position |-> call.random_position]}
          ELSE {})

\* "s_1.t"
DotName1 == <<115, 95, 49, 46, 116>>

\* a directory that holds an older file under each of the names
DirOf(names) == [name \in names |-> OldOutput]

\* what the output directory holds when extract is called: nothing, or, for
\* the call that reads back the name "s.t" with the flags and key of the
\* embed call, also a file under another name, a file under "s.t", or files
\* under "s.t" and "s_1.t"
DirsFor(x) ==
    IF call.filename = DotName /\ x.encrypted = call.encrypt /\ x.key = call.key
       /\ x.random_position = call.random_position
    THEN {EmptyDir, DirOf({ShortName}), DirOf({DotName}),
          DirOf({DotName, DotName1})}
    ELSE {EmptyDir}

\* extract(stego_audio_path = output_path, output_dir, ...): the only write is
\* the payload to output_file in the output directory
Extract ==
    /\ pc = "embedded"
    /\ \E x \in ExtractCalls :
      \E dir \in DirsFor(x) :
        LET r == extract(outputFile, dir, x.encrypted, x.key, x.random_position)
        IN  /\ xcall' = [encrypted |-> x.encrypted, key |-> x.key,
                         random_position |-> x.random_position, dir |-> dir]
            /\ result' = r
            /\ outDir' = IF r.err = Ok
                         THEN [name \in DOMAIN dir \cup {r.output_file} |->
                                  IF name = r.output_file THEN r.payload
                                  ELSE dir[name]]
                         ELSE dir
    /\ pc' = "extracted"
    /\ UNCHANGED <<cover, secret, call, outputFile, outputBefore, embedErr>>
    /\ UNCHANGED fnvars

Next == Embed \/ Extract

Spec == Init /\ [][Next]_vars

----------------------------------------------------------------------------
(* calculate_psnr on its own: one call on two sample arrays                *)

\* no embed or extract call is under way
StegoIdle ==
    /\ cover = None
    /\ secret = None
    /\ call = [filename |-> ShortName, bits_per_sample |-> 1, encrypt |-> FALSE,
               key |-> None, random_position |-> FALSE]
    /\ outputFile = None
    /\ outputBefore = None
    /\ embedErr = "notrun"
    /\ xcall = [encrypted |-> FALSE, key |-> None, random_position |-> FALSE,
                dir |-> EmptyDir]
    /\ result = NoResult
    /\ outDir = EmptyDir

InitPsnr ==
    /\ StegoIdle
    /\ HeaderIdle
    /\ ProtectIdle
    /\ ScanIdle
    /\ GuiIdle
    /\ original_samples \in SampleArrays
    /\ modified_samples \in SampleArrays
    /\ psnr = PsnrValue("notrun", 0, 0)
    /\ pc = "psnr"

CalculatePsnr ==
    /\ pc = "psnr"
    /\ psnr' = calculate_psnr(original_samples, modified_samples)
    /\ pc' = "psnr_done"
    /\ UNCHANGED <<stegovars, guivars, original_samples, modified_samples, frame_header,
                   parsed, mp3_data, protected_indices, scan>>

NextPsnr == CalculatePsnr

SpecPsnr == InitPsnr /\ [][NextPsnr]_vars

----------------------------------------------------------------------------
(* _parse_frame_header on its own: one call on four bytes                  *)

\* The headers of the model: every value of the 13 bits that hold version,
\* layer, protection, bitrate index, sample-rate index and padding, under a
\* full sync and under syncs with one bit cleared in either byte, with the
\* private bit 0 and two values of the last byte
HeaderInputs ==
    {<<b0, b1, 2 * b2, b3>> : b0 \in {254, 255}, b1 \in 192..255, b2 \in 0..127,
                             b3 \in {0, 255}}

InitHeader ==
    /\ StegoIdle
    /\ PsnrIdle
    /\ ProtectIdle
    /\ ScanIdle
    /\ GuiIdle
    /\ frame_header \in HeaderInputs
    /\ parsed = Invalid
    /\ pc = "header"

ParseHeader ==
    /\ pc = "header"
    /\ parsed' = _parse_frame_header(frame_header)
    /\ pc' = "header_done"
    /\ UNCHANGED <<stegovars, guivars, original_samples, modified_samples, psnr,
                   frame_header, mp3_data, protected_indices, scan>>

NextHeader == ParseHeader

SpecHeader == InitHeader /\ [][NextHeader]_vars

----------------------------------------------------------------------------
(* build_protected_indices on its own: one call on a byte stream           *)

\* an ID3v2 header whose size field is 0, 0, b2, b3
TagHeader(b2, b3) == <<73, 68, 51, 3, 0, 0, 0, 0, b2, b3>>

\* the first bytes of the streams of the model: no tag, or a tag header with
\* size 0, 5, 128 (the third size byte 1) or 130 (the last size byte above 127)
TagInputs ==
    {<< >>, TagHeader(0, 0), TagHeader(0, 5), TagHeader(1, 0), TagHeader(0, 130)}

\* The number of entries the set built at line 261 can have before the
\* interpreter runs out of memory.  It depends on the machine (a set of 2^26
\* indices does not fit an address space of 2 GB); the model scales it down
\* so that a tag size above it is a size of a few hundred.
MaxSetEntries == 300

\* a stream of 34 bytes whose tag header gives a size of 3 * 128 = 384
OversizedTag == TagHeader(3, 0) \o Frame24

\* the frames of the streams of the model
FrameInputs ==
    {<< >>, Frame24, Repeat(Frame24, 3), Frame96 \o Frame96, Frame96 \o Frame24,
     Repeat(Frame24, 6), Repeat(Frame96, 3)}

\* the streams of the model: a tag or none, bytes outside any frame, frames,
\* bytes outside any frame
ProtectInputs ==
    {tag \o Junk(before) \o frames \o Junk(after) :
        tag \in TagInputs, before \in {0, 5}, frames \in FrameInputs,
        after \in {0, 12}}
    \cup {<<73, 68, 51, 3, 0, 0>>, OversizedTag}

InitProtect ==
    /\ StegoIdle
    /\ PsnrIdle
    /\ HeaderIdle
    /\ ScanIdle
    /\ GuiIdle
    /\ mp3_data \in ProtectInputs
    /\ protected_indices = {}
    /\ pc = "protect"

BuildProtected ==
    /\ pc = "protect"
    /\ protected_indices' = build_protected_indices(mp3_data)
    /\ pc' = "protect_done"
    /\ UNCHANGED <<stegovars, guivars, original_samples, modified_samples, psnr,
                   frame_header, parsed, mp3_data, scan>>

\* protected.update(range(0, id3_end)) of line 261 materialises every index
\* below id3_end, whatever the length of data: with more indices than memory
\* holds the call ends in MemoryError.  Whether it does depends on the
\* machine, so both outcomes are possible.
BuildProtectedRaises ==
    /\ pc = "protect"
    /\ find_id3v2_end(mp3_data) > MaxSetEntries
    /\ pc' = "protect_error"
    /\ UNCHANGED <<stegovars, fnvars>>

NextProtect == BuildProtected \/ BuildProtectedRaises

SpecProtect == InitProtect /\ [][NextProtect]_vars

----------------------------------------------------------------------------
(* find_mp3_frames on its own, one step per iteration of its outer loop    *)

\* largest min_consec of the model
MaxMinConsec == 3

\* bytes in which headers overlap: a header that parses at 0 with its frame
\* not fitting, one at 4, sync bytes in a row
SyncNoise ==
    <<255, 251, 20, 0, 255, 243, 20, 0, 255, 255, 255, 251, 20, 255, 243, 20, 0,
      1, 2, 3, 255, 224, 0, 0, 255, 243, 20, 0>> \o Junk(24)

\* the byte sequences scanned: empty, shorter than a header, a truncated
\* frame, a run whose last frame is cut, tagged and untagged runs of one to
\* six frames with bytes around them, overlapping headers, no frame at all
ScanData ==
    {<< >>, <<255>>, <<255, 243, 20>>, SubSeq(Frame24, 1, 20),
     SubSeq(Repeat(Frame24, 3), 1, 60), Repeat(Frame24, 2) \o <<255, 243, 20, 0>>,
     Id3Tag \o Repeat(Frame24, 3) \o Junk(12), Frame96 \o Frame24 \o Junk(5),
     Repeat(Frame24, 6), Junk(9) \o Frame24 \o Frame24 \o Junk(3), SyncNoise,
     Junk(30)}

\* the find_mp3_frames calls of the model; a start offset of 400 lies past the
\* end of every sequence, as the end of an ID3 tag whose size is too large does
ScanCalls ==
    [data : ScanData, start_offset : {0, 4, 10, 400}, min_consec : 1..MaxMinConsec,
     max_scan : {NoMaxScan, 0, 30, MAX_SCAN}]

InitScan ==
    /\ StegoIdle
    /\ PsnrIdle
    /\ HeaderIdle
    /\ ProtectIdle
    /\ GuiIdle
    /\ \E c \in ScanCalls :
           scan = ScanStart(c.data, c.start_offset, c.min_consec, c.max_scan)
    /\ pc = "scan"

\* limit of the call under way
LimitOf(sc) == ScanLimit(Len(sc.data), sc.start_offset, sc.max_scan)

\* frames.append((pos, frame_len)); pos += frame_len (lines 215-216, 244-245)
TakeOne(sc, frame_len) ==
    [sc EXCEPT !.frames = Append(sc.frames, <<sc.pos, frame_len>>),
               !.pos = sc.pos + frame_len, !.loop = "outer"]

\* one iteration of the outer while up to the inner while (lines 191-223)
ScanOuter ==
    /\ pc = "scan"
    /\ scan.loop = "outer"
    /\ scan.pos + 4 <= LimitOf(scan)
    /\ scan' =
         IF ~FrameStartsAt(scan.data, scan.pos)
         THEN [scan EXCEPT !.pos = ScanSkip(scan.pos)]
         ELSE IF ~Valid2(scan.data,
                         scan.pos + HeaderAt(scan.data, scan.pos).frame_length,
                         LimitOf(scan))
         THEN TakeOne(scan, HeaderAt(scan.data, scan.pos).frame_length)
         ELSE [scan EXCEPT
                 !.loop = "run",
                 !.frame_len = HeaderAt(scan.data, scan.pos).frame_length,
                 !.count = 1,
                 !.cur = scan.pos + HeaderAt(scan.data, scan.pos).frame_length]
    /\ UNCHANGED <<stegovars, guivars, pc, original_samples, modified_samples, psnr,
                   frame_header, parsed, mp3_data, protected_indices>>

\* the inner while goes on from cur (lines 224-233)
RunGoesOn(sc) ==
    /\ sc.cur + 4 <= LimitOf(sc)
    /\ HeaderAt(sc.data, sc.cur).valid
    /\ FrameFits(sc.data, sc.cur, HeaderAt(sc.data, sc.cur).frame_length)

\* one iteration of the inner while, or its exit with the test of line 234
ScanRunStep ==
    /\ pc = "scan"
    /\ scan.loop = "run"
    /\ scan' =
         IF RunGoesOn(scan)
         THEN [scan EXCEPT
                 !.count = scan.count + 1,
                 !.cur = scan.cur + HeaderAt(scan.data, scan.cur).frame_length]
         ELSE IF scan.count >= scan.min_consec
         THEN [scan EXCEPT !.loop = "emit", !.cur2 = scan.pos, !.emitted = 0]
         ELSE TakeOne(scan, scan.frame_len)
    /\ UNCHANGED <<stegovars, guivars, pc, original_samples, modified_samples, psnr,
                   frame_header, parsed, mp3_data, protected_indices>>

\* one iteration of the for loop of lines 237-240, or pos = cur2 after it
ScanEmitStep ==
    /\ pc = "scan"
    /\ scan.loop = "emit"
    /\ scan' =
         IF scan.emitted < scan.count
         THEN [scan EXCEPT
                 !.frames = Append(scan.frames,
                               <<scan.cur2,
                                 HeaderAt(scan.data, scan.cur2).frame_length>>),
                 !.cur2 = scan.cur2 + HeaderAt(scan.data, scan.cur2).frame_length,
                 !.emitted = scan.emitted + 1]
         ELSE [scan EXCEPT !.pos = scan.cur2, !.loop = "outer"]
    /\ UNCHANGED <<stegovars, guivars, pc, original_samples, modified_samples, psnr,
                   frame_header, parsed, mp3_data, protected_indices>>

\* the test of the outer while fails: return frames
ScanReturn ==
    /\ pc = "scan"
    /\ scan.loop = "outer"
    /\ ~(scan.pos + 4 <= LimitOf(scan))
    /\ pc' = "scan_done"
    /\ UNCHANGED <<stegovars, fnvars>>

NextScan == ScanOuter \/ ScanRunStep \/ ScanEmitStep \/ ScanReturn

SpecScan == InitScan /\ [][NextScan]_vars

\* the loop is not abandoned: a call that can take a step takes one
SpecScanLive == SpecScan /\ WF_vars(NextScan)

----------------------------------------------------------------------------
(* Two extractions started from the GUI                                    *)

\* perform_extract starts a daemon thread per click (gui.py, line 798) and
\* nothing keeps a second click from starting a second thread while the first
\* runs.  Each thread runs extract on its stego file; the steps below are the
\* ones that touch the output folder.  The two stego files carry the filenames
\* and the payloads of the two threads.

\* the folders the threads extract to: empty, or with older files
WorkerFolders ==
    {EmptyDir, DirOf({ShortName}), DirOf({DotName}), DirOf({DotName, DotName1})}

InitGui ==
    /\ StegoIdle
    /\ PsnrIdle
    /\ HeaderIdle
    /\ ProtectIdle
    /\ ScanIdle
    /\ extract_output_folder \in WorkerFolders
    /\ \E f1 \in {ShortName, DotName}, f2 \in {ShortName, DotName} :
           worker = [w \in Workers |->
                        WorkerStart(IF w = 1 THEN f1 ELSE f2, <<110 + w>>)]
    /\ pc = "gui"

\* threading.Thread(target=extract_worker).start(), and extract up to line
\* 713: output_file = os.path.join(output_path, filename)
PerformExtract(w) ==
    /\ pc = "gui"
    /\ worker[w].at = "idle"
    /\ worker' = [worker EXCEPT ![w].at = "exists",
                                ![w].output_file = worker[w].filename]
    /\ UNCHANGED <<stegovars, pc, original_samples, modified_samples, psnr,
                   frame_header, parsed, mp3_data, protected_indices, scan,
                   extract_output_folder>>

\* lines 716-718: if os.path.exists(output_file): counter = 1
CheckExists(w) ==
    /\ pc = "gui"
    /\ worker[w].at = "exists"
    /\ worker' =
         IF ExistsIn(extract_output_folder, worker[w].output_file)
         THEN [worker EXCEPT ![w].at = "while", ![w].counter = 1]
         ELSE [worker EXCEPT ![w].at = "open"]
    /\ UNCHANGED <<stegovars, pc, original_samples, modified_samples, psnr,
                   frame_header, parsed, mp3_data, protected_indices, scan,
                   extract_output_folder>>

\* lines 719-721: one test of while os.path.exists(output_file), and the body
WhileExists(w) ==
    /\ pc = "gui"
    /\ worker[w].at = "while"
    /\ worker' =
         IF ExistsIn(extract_output_folder, worker[w].output_file)
         THEN [worker EXCEPT
                 ![w].output_file = NumberedName(worker[w].filename,
                                                 worker[w].counter),
                 ![w].counter = worker[w].counter + 1]
         ELSE [worker EXCEPT ![w].at = "open"]
    /\ UNCHANGED <<stegovars, pc, original_samples, modified_samples, psnr,
                   frame_header, parsed, mp3_data, protected_indices, scan,
                   extract_output_folder>>

\* lines 725-726: open(output_file, "wb") creates the file or empties the one
\* that is there, and the payload is written
WriteOutput(w) ==
    /\ pc = "gui"
    /\ worker[w].at = "open"
    /\ extract_output_folder' =
         [name \in DOMAIN extract_output_folder \cup {worker[w].output_file} |->
             IF name = worker[w].output_file THEN worker[w].payload
             ELSE extract_output_folder[name]]
    /\ worker' = [worker EXCEPT ![w].at = "done"]
    /\ UNCHANGED <<stegovars, pc, original_samples, modified_samples, psnr,
                   frame_header, parsed, mp3_data, protected_indices, scan>>

NextGui ==
    \E w \in Workers :
        PerformExtract(w) \/ CheckExists(w) \/ WhileExists(w) \/ WriteOutput(w)

SpecGui == InitGui /\ [][NextGui]_vars

----------------------------------------------------------------------------
(* Properties                                                              *)

\* embed has returned without an error
EmbedOk == pc # "start" /\ embedErr = Ok

\* extract was called with the flags and the key of the embed call
SameConfig ==
    /\ xcall.encrypted = call.encrypt
    /\ xcall.key = call.key
    /\ xcall.random_position = call.random_position

\* the payload embed frames: the secret, encrypted when asked for
FramedPayload ==
    IF call.encrypt /\ call.key # None THEN vigenere_encrypt(secret, call.key)
    ELSE secret

\* C1 - Round trip: when embed succeeded with a legal configuration (a key of
\* at least one byte wherever one is used, or no key and no flag) and extract
\* is run on its output with the same configuration, extract returns the bytes
\* of the secret under the basename of the secret path.
C1_RoundTrip ==
    (/\ pc = "extracted"
     /\ embedErr = Ok
     /\ SameConfig
     /\ call.key # EmptyKey)
    => /\ result.err = Ok
       /\ result.payload = secret
       /\ result.filename = call.filename

\* C2 - Protection: after a successful embed the output byte equals the cover
\* byte at every index of build_protected_indices(cover).
C2_Protection ==
    EmbedOk =>
        \A i \in build_protected_indices(cover) :
            i < Len(cover) => /\ i < Len(outputFile)
                              /\ At(outputFile, i) = At(cover, i)

\* C2 happens: an embed on a cover with protected indices has rewritten bytes
C2_Witness ==
    /\ EmbedOk
    /\ build_protected_indices(cover) # {}
    /\ outputFile # cover

\* C3 - Output format: the output of a successful embed is as long as the
\* cover, and at every index output and cover agree on the upper 8 - k bits.
C3_OutputFormat ==
    EmbedOk =>
        /\ Len(outputFile) = Len(cover)
        /\ \A j \in 1..Len(cover) :
               outputFile[j] \div Pow2(call.bits_per_sample)
                   = cover[j] \div Pow2(call.bits_per_sample)

\* C3 happens: a successful embed at k = 3 changed some byte of the cover
C3_Witness ==
    /\ EmbedOk
    /\ call.bits_per_sample = 3
    /\ \E j \in 1..Len(cover) : outputFile[j] # cover[j]

\* every frame of data, scanned from the end of the tag to the end of the file
AllFrames(data) == find_mp3_frames(data, find_id3v2_end(data), 3, Len(data))

\* frames lie back to back from start to the end of the file
BackToBack(frames, start, n) ==
    /\ Len(frames) > 0
    /\ frames[1][1] = start
    /\ \A j \in 1..(Len(frames) - 1) : frames[j][1] + frames[j][2] = frames[j + 1][1]
    /\ frames[Len(frames)][1] + frames[Len(frames)][2] = n

\* C4 - Structural bytes: for a cover that is an optional ID3v2 tag followed by
\* back-to-back valid frames up to the end of the file, a successful embed
\* leaves the 4 header bytes of every frame unchanged, the frames that start
\* beyond the scan window of build_protected_indices included.
C4_FrameHeadersKept ==
    (EmbedOk /\ BackToBack(AllFrames(cover), find_id3v2_end(cover), Len(cover)))
    => \A j \in 1..Len(AllFrames(cover)) :
           \A i \in AllFrames(cover)[j][1]..(AllFrames(cover)[j][1] + 3) :
               At(outputFile, i) = At(cover, i)

\* C5 - Width detection: detect_bits_per_sample on the output of a successful
\* embed, with the random_position and key of the embed call, returns the
\* width the embed was done with.
C5_WidthDetected ==
    EmbedOk =>
        detect_bits_per_sample(outputFile, UsablePositions(outputFile),
                               call.random_position, call.key)
            = call.bits_per_sample

\* embed got past its parameter checks, its reads and its filename check
ReachedCapacityCheck ==
    /\ pc # "start"
    /\ embedErr \in {Ok, "InsufficientCapacity"}

\* the bits the message of this call needs, as the spec counts them
NeededBits == 28 + 8 * (5 + Len(Utf8Encode(call.filename)) + Len(FramedPayload))

\* the bits the cover offers
CapacityBits == call.bits_per_sample * Len(UsablePositions(cover))

\* the largest payload that fits: floor((k * |usable| - 28) / 8) - (5 + |filename|)
LargestPayload ==
    ((CapacityBits - 28) \div 8) - (5 + Len(Utf8Encode(call.filename)))

\* C6 - Capacity boundary: an embed that reaches the capacity check is
\* rejected with InsufficientCapacity exactly when
\* 28 + 8 * (5 + |filename| + |payload|) > k * |usable_positions|; a payload of
\* exactly the largest size is embedded and one byte more is rejected.
C6_CapacityBoundary ==
    ReachedCapacityCheck =>
        /\ (embedErr = "InsufficientCapacity") <=> (NeededBits > CapacityBits)
        /\ Len(FramedPayload) = LargestPayload => embedErr = Ok
        /\ Len(FramedPayload) = LargestPayload + 1 => embedErr = "InsufficientCapacity"

\* C6 happens: an embed of exactly the largest payload, of at least one byte,
\* that fills the capacity to the last bit
C6_Witness ==
    /\ EmbedOk
    /\ Len(FramedPayload) = LargestPayload
    /\ Len(FramedPayload) > 0
    /\ NeededBits = CapacityBits

\* C7 - No output on failure: when embed ends with an error, output_path holds
\* what it held before the call (nothing, or the older file).
C7_NoOutputOnFailure ==
    (pc # "start" /\ embedErr # Ok) => outputFile = outputBefore

\* C7 happens: embed failed at its last check, the capacity check, with an
\* older file at output_path
C7_Witness ==
    /\ pc # "start"
    /\ embedErr = "InsufficientCapacity"
    /\ outputBefore = OldOutput

\* C8 - Missing key: embed (called with a width from 1 to 4) and extract
\* (called on the output of a successful embed) fail with MissingKey, writing
\* nothing, whenever encryption or random position is requested and key is None.
C8_MissingKey ==
    /\ (pc # "start" /\ call.bits_per_sample \in 1..4
            /\ (call.encrypt \/ call.random_position) /\ call.key = None)
       => (embedErr = "MissingKey" /\ outputFile = outputBefore)
    /\ (pc = "extracted" /\ embedErr = Ok
            /\ (xcall.encrypted \/ xcall.random_position) /\ xcall.key = None)
       => (result.err = "MissingKey" /\ outDir = xcall.dir)

\* C9 - Empty key: embed and extract reject the empty key when encryption or
\* random position is requested.
C9_EmptyKeyRejected ==
    /\ (pc # "start" /\ (call.encrypt \/ call.random_position)
            /\ call.key = EmptyKey)
       => embedErr # Ok
    /\ (pc = "extracted" /\ (xcall.encrypted \/ xcall.random_position)
            /\ xcall.key = EmptyKey)
       => result.err # Ok

\* C10 - Invalid length: extract fails and writes no file when the length
\* field it read is 0 or above 100 MiB; so an extract that succeeded read a
\* length from 1 to 100 MiB.
C10_InvalidLength ==
    (pc = "extracted" /\ result.err = Ok)
    => (result.payload_len > 0 /\ result.payload_len <= 100 * 1024 * 1024)

\* the streams the reader is to accept: a start of "ID3", or of FF followed by
\* FB, F3 or F2
GateAccepts(data) ==
    \/ Slice(data, 0, 3) = <<73, 68, 51>>
    \/ (Len(data) >= 2 /\ data[1] = 255 /\ data[2] \in {251, 243, 242})

\* embed got as far as reading audio_path, and there is a file there
ReachedReader ==
    /\ pc # "start"
    /\ call.bits_per_sample \in 1..4
    /\ ~((call.encrypt \/ call.random_position) /\ call.key = None)
    /\ cover # None

\* C11 - MP3 gate: the reader rejects a stream (IOReaderError, before any
\* scanning or embedding, nothing written) exactly when it begins neither with
\* "ID3" nor with FF followed by FB, F3 or F2.
C11_Mp3Gate ==
    ReachedReader =>
        /\ (embedErr = "IOReaderError") <=> ~GateAccepts(cover)
        /\ embedErr = "IOReaderError" => outputFile = outputBefore

\* C12 - Cipher inversion: for the secret x and the non-empty key of the call,
\* vigenere_decrypt(vigenere_encrypt(x, key), key) = x, and byte i of the
\* ciphertext is x[i] shifted by key_bytes[i mod |key|] modulo 256.
C12_CipherInversion ==
    (secret # None /\ call.key \in RealKeys) =>
        /\ vigenere_decrypt(vigenere_encrypt(secret, call.key), call.key) = secret
        /\ Len(vigenere_encrypt(secret, call.key)) = Len(secret)
        /\ \A j \in 1..Len(secret) :
               vigenere_encrypt(secret, call.key)[j]
                   = (secret[j]
                      + Utf8Encode(call.key)[((j - 1) % Len(Utf8Encode(call.key))) + 1])
                     % 256

\* C12 happens: a secret of the largest size was encrypted under the two-byte
\* encoding of a one-character key, a ciphertext byte wrapped around 256, and
\* extract decrypted the payload back to the secret
C12_Witness ==
    /\ pc = "extracted"
    /\ call.encrypt /\ xcall.encrypted
    /\ call.key = KeyU /\ xcall.key = KeyU
    /\ Len(secret) = MaxSecretLen
    /\ \E j \in 1..Len(secret) : FramedPayload[j] < secret[j]
    /\ result.err = Ok
    /\ result.payload = secret

\* the start offset a key gives on the usable positions of the cover
OffsetOf(key) == generate_random_position(key, Len(UsablePositions(cover)))

\* extract was run with random position and a key other than the key of a
\* successful embed with random position, and the two keys give different offsets
WrongKeyExtract ==
    /\ pc = "extracted"
    /\ embedErr = Ok
    /\ call.random_position /\ xcall.random_position
    /\ call.key \in RealKeys /\ xcall.key \in RealKeys
    /\ xcall.key # call.key
    /\ xcall.encrypted = call.encrypt
    /\ OffsetOf(call.key) # OffsetOf(xcall.key)

\* C13 - Key sensitivity: extracting with k2 a file embedded with k1, the
\* offsets of the two keys being different, fails or yields a payload
\* different from the original.
C13_KeySensitivity ==
    WrongKeyExtract => (result.err # Ok \/ result.payload # secret)

\* the framed bit stream of the embed call
FramedBits ==
    combined_bit_stream(call.bits_per_sample,
                        Header(FramedPayload, Utf8Encode(call.filename)),
                        FramedPayload)

\* the bits an extractor of width k unpacks from the output of embed, over the
\* positions and from the offset of the embedder
UnpackedBits ==
    bit_stream_generator(outputFile, UsablePositions(cover), call.bits_per_sample,
        StartOffset(call.random_position, call.key, Len(UsablePositions(cover))))

\* C14 - Bit-stream round trip: after a successful embed of a framed stream of
\* n bits, the first n bits unpacked at the same width over the same positions
\* are the n bits packed; and an extract with the configuration of the embed
\* that detects this width and succeeds reads the end signature after the
\* payload.
C14_BitStreamRoundTrip ==
    /\ EmbedOk => SubSeq(UnpackedBits, 1, Len(FramedBits)) = FramedBits
    /\ (pc = "extracted" /\ embedErr = Ok /\ SameConfig /\ result.err = Ok
            /\ result.bits_per_sample = call.bits_per_sample)
       => result.end_ok

\* C15 - Collision-free destination: a successful extract writes its payload
\* to a name the directory did not hold; when the directory held the name read
\* from the stream, the name written is the first of base_1.ext, base_2.ext, ...
\* that it did not hold; every file the directory held is unchanged.
C15_CollisionFree ==
    (pc = "extracted" /\ result.err = Ok) =>
        /\ result.output_file \notin DOMAIN xcall.dir
        /\ DOMAIN outDir = DOMAIN xcall.dir \cup {result.output_file}
        /\ outDir[result.output_file] = result.payload
        /\ \A name \in DOMAIN xcall.dir : outDir[name] = xcall.dir[name]
        /\ result.filename \notin DOMAIN xcall.dir /\ result.filename # << >>
               => result.output_file = result.filename
        /\ result.filename \in DOMAIN xcall.dir
               => \E c \in 1..(Cardinality(DOMAIN xcall.dir) + 1) :
                      /\ result.output_file = NumberedName(result.filename, c)
                      /\ \A c2 \in 1..(c - 1) :
                             NumberedName(result.filename, c2) \in DOMAIN xcall.dir

\* C15 happens: the directory held "s.t" and "s_1.t", and extract wrote "s_2.t"
C15_Witness ==
    /\ pc = "extracted"
    /\ result.err = Ok
    /\ result.filename = DotName
    /\ DOMAIN xcall.dir = {DotName, DotName1}
    /\ result.output_file = <<115, 95, 50, 46, 116>>
    /\ outDir[DotName] = OldOutput

\* whether the header at the front of stream declares more bits than one
\* cycle of total_positions positions of width k holds: start signature, 5
\* header bytes, filename and payload
Overlong(stream, k, total_positions) ==
    \/ ReadByte(stream, Len(SIGNATURES[k][1]) + 24) > 0
    \/ Len(SIGNATURES[k][1]) + 40
         + 8 * (ReadByte(stream, Len(SIGNATURES[k][1]) + 32)
                + ReadByte(stream, Len(SIGNATURES[k][1]))
                + 256 * ReadByte(stream, Len(SIGNATURES[k][1]) + 8)
                + 65536 * ReadByte(stream, Len(SIGNATURES[k][1]) + 16))
         > k * total_positions

\* Overlong for the stream extract reads from stego at width k
OverlongAt(stego, usable_positions, k) ==
    Overlong(bit_stream_generator(stego, usable_positions, k,
                 StartOffset(xcall.random_position, xcall.key,
                             Len(usable_positions))),
             k, Len(usable_positions))

\* Overlong for the file and the width of the extract call that was made
OverlongFile(usable_positions) ==
    OverlongAt(outputFile, usable_positions,
               detect_bits_per_sample(outputFile, usable_positions,
                                      xcall.random_position, xcall.key))

\* C16 - Extraction never revisits a position: an extract that detects a
\* width on a file whose declared lengths need more than k * |usable| bits
\* fails with the truncated-stream error.
C16_NoRevisit ==
    (pc = "extracted" /\ result.err \in {Ok, "TruncatedStream"}) =>
        (OverlongFile(UsablePositions(outputFile))
            => result.err = "TruncatedStream")

\* C17 - PSNR of identical signals: calculate_psnr(a, a) is +infinity for
\* every non-empty array a, the all-zero arrays included, and calculate_psnr
\* is symmetric in its two arguments.
C17_PsnrIdentical ==
    pc = "psnr_done" =>
        /\ (original_samples = modified_samples /\ Len(original_samples) > 0)
               => psnr.kind = "inf"
        /\ psnr = calculate_psnr(modified_samples, original_samples)

\* the groups of k bits of the stream bits are in out where the embedding
\* order puts them: group i in the low k bits of the byte at
\* usable_positions[(offset + i) mod U], its first bit the most significant
GroupsInOrder(out, usable_positions, bits, k, offset) ==
    \A i \in 0..((Len(bits) \div k) - 1) :
        LsbBits(At(out, usable_positions[((offset + i) % Len(usable_positions)) + 1]), k)
            = SubSeq(bits, i * k + 1, i * k + k)

\* the usable positions that no iteration of the embedding loop visits (the
\* loop visits those numbered offset, ..., offset + iterations - 1 mod U) hold
\* in out what they held in carrier
OthersKept(out, carrier, usable_positions, iterations, offset) ==
    \A j \in 1..Len(usable_positions) :
        ((j - 1 - offset) % Len(usable_positions) >= iterations)
            => At(out, usable_positions[j]) = At(carrier, usable_positions[j])

\* the embedding order for the stream bits over usable_positions
EmbeddedInOrder(usable_positions, bits, k, offset) ==
    /\ GroupsInOrder(outputFile, usable_positions, bits, k, offset)
    /\ Iterations(Len(bits), k, Len(usable_positions)) <= Len(usable_positions)
    /\ OthersKept(outputFile, cover, usable_positions,
                  Iterations(Len(bits), k, Len(usable_positions)), offset)

\* C18 - Embedding order: after a successful embed, the i-th k-bit group of
\* the framed bit stream is in the low k bits of
\* cover[usable_positions[(offset + i) mod U]], first bit most significant;
\* the loop makes at most U iterations, each on a position of its own, and the
\* positions it does not visit are unchanged.
C18_EmbeddingOrder ==
    (pc = "embedded" /\ embedErr = Ok) =>
        EmbeddedInOrder(UsablePositions(cover), FramedBits, call.bits_per_sample,
                        StartOffset(call.random_position, call.key,
                                    Len(UsablePositions(cover))))

\* C18 happens: a successful embed at width 3 from a random offset, whose
\* groups run past the last usable position and wrap to the first, and whose
\* stream ends in a short group
C18_Witness ==
    /\ pc = "embedded"
    /\ embedErr = Ok
    /\ call.bits_per_sample = 3
    /\ call.random_position
    /\ call.key \in RealKeys
    /\ Len(FramedBits) % 3 # 0
    /\ OffsetOf(call.key) + (Len(FramedBits) \div 3) > Len(UsablePositions(cover))
    /\ OffsetOf(call.key) < Len(UsablePositions(cover))
    /\ outputFile # cover

\* the fields of the four bytes b of a header, by their place in the header
SyncOf(b) == b[1] * 8 + (b[2] \div 32)
VersionBitsOf(b) == (b[2] \div 8) % 4
LayerBitsOf(b) == (b[2] \div 2) % 4
BitrateIndexOf(b) == b[3] \div 16
SampleRateIndexOf(b) == (b[3] \div 4) % 4

\* C19 - Header validity: _parse_frame_header reports a 4-byte header invalid
\* exactly when its sync is not 0x7FF, its version bits are 01, its layer bits
\* are 00, its bitrate index is 0 or 15, or its sample-rate index is 3; a
\* valid header has a frame_length greater than 4.
C19_HeaderValidity ==
    pc = "header_done" =>
        /\ ~parsed.valid <=>
              \/ SyncOf(frame_header) # 2047
              \/ VersionBitsOf(frame_header) = 1
              \/ LayerBitsOf(frame_header) = 0
              \/ BitrateIndexOf(frame_header) \in {0, 15}
              \/ SampleRateIndexOf(frame_header) = 3
        /\ parsed.valid => parsed.frame_length > 4

\* C19 happens: the header of the shortest frame (MPEG-2 Layer III, 8 kbps,
\* 24 kHz, no padding) was parsed as valid, 24 bytes long
C19_Witness ==
    /\ pc = "header_done"
    /\ frame_header = <<255, 243, 20, 0>>
    /\ parsed.valid
    /\ parsed.frame_length = 24

\* id3_end as the claim gives it: 10 + (b0 << 21 | b1 << 14 | b2 << 7 | b3) on
\* bytes 6..9 when b starts with "ID3" and has at least 10 bytes, else 0
ClaimedId3End(b) ==
    IF Len(b) >= 10 /\ SubSeq(b, 1, 3) = <<73, 68, 51>>
    THEN 10 + BitOr(BitOr(b[7] * 2097152, b[8] * 16384), BitOr(b[9] * 128, b[10]))
    ELSE 0

\* the three bands of one frame (fs, fl)
ClaimedBands(fs, fl) ==
    {i \in fs..(fs + fl) : fs <= i /\ i < fs + 4}
    \cup {i \in fs..(fs + fl) : fs + 4 <= i /\ i < Min(fs + 36, fs + fl)}
    \cup {i \in fs..(fs + fl) : Max(fs + 4, fs + fl - 10) <= i /\ i < fs + fl}

\* the union of the claim for the tag end id3_end and the frames of the scanner
ClaimedUnion(id3_end, frames) ==
    {i \in 0..(id3_end - 1) : TRUE}
    \cup UNION {ClaimedBands(frames[j][1], frames[j][2]) : j \in DOMAIN frames}

\* the usable positions are the indices of b outside the set S, in order
UsableOutside(b, usable_positions, S) ==
    /\ \A j \in 1..Len(usable_positions) :
           /\ usable_positions[j] \in 0..(Len(b) - 1)
           /\ usable_positions[j] \notin S
           /\ j > 1 => usable_positions[j - 1] < usable_positions[j]
    /\ \A i \in 0..(Len(b) - 1) :
           i \notin S => \E j \in 1..Len(usable_positions) : usable_positions[j] = i

ScanAdvances ==
    \/ pc' = "scan_done"
    \/ scan'.pos > scan.pos
    \/ scan'.pos = scan.pos /\ scan.loop = "outer" /\ scan'.loop = "run"
    \/ scan'.pos = scan.pos /\ scan.loop = "run" /\ scan'.loop = "run"
          /\ scan'.cur > scan.cur
    \/ scan'.pos = scan.pos /\ scan.loop = "run" /\ scan'.loop = "emit"
    \/ scan'.pos = scan.pos /\ scan.loop = "emit" /\ scan'.loop = "emit"
          /\ scan'.emitted > scan.emitted /\ scan'.emitted <= scan.count

\* Every iteration of a loop of find_mp3_frames moves the scan forward (the
\* outer loop by a strictly greater position), every call returns, and it
\* returns the frames build_protected_indices builds its set from.
ScannerTerminates ==
    /\ [][pc = "scan" => ScanAdvances]_vars
    /\ [][(pc = "scan" /\ scan.loop = "outer" /\ scan'.loop = "outer")
             => (scan'.pos > scan.pos \/ pc' = "scan_done")]_vars
    /\ <>(pc = "scan_done")
    /\ [](pc = "scan_done" =>
             scan.frames = find_mp3_frames(scan.data, scan.start_offset,
                                           scan.min_consec, scan.max_scan))

\* a find_mp3_frames call on overlapping headers has stepped over bytes one at
\* a time, taken frames and returned
ScannerReturned ==
    /\ pc = "scan_done"
    /\ scan.data = SyncNoise
    /\ scan.max_scan = NoMaxScan
    /\ scan.start_offset = 0
    /\ Len(scan.frames) > 0
    /\ scan.frames[1][1] > 0
    /\ scan.pos > Len(scan.data) - 4

\* C21 - Scanner totality: on every byte sequence, one whose ID3 size points
\* past the end of the data included, build_protected_indices returns a set
\* and does not end in an error.
C21_ScannerTotality == pc # "protect_error"

\* C24 - min_consec has no effect: the list a find_mp3_frames call returns is
\* the list it returns for every other min_consec >= 1 on the same data, start
\* offset and max_scan.
C24_MinConsecNoEffect ==
    pc = "scan_done" =>
        \A m \in 1..MaxMinConsec :
            scan.frames =
                find_mp3_frames(scan.data, scan.start_offset, m, scan.max_scan)

\* C24 happens: a call with min_consec = 3 met a run of two frames (the third
\* header is cut off), too short to be taken as a run, and returned both
C24_Witness ==
    /\ pc = "scan_done"
    /\ scan.data = Repeat(Frame24, 2) \o <<255, 243, 20, 0>>
    /\ scan.min_consec = 3
    /\ scan.start_offset = 0
    /\ scan.max_scan = NoMaxScan
    /\ scan.frames = <<<<0, 24>>, <<24, 24>>>>

\* the header at the offset of frame f parses as valid with the length of f
FrameParses(data, f) ==
    /\ HeaderAt(data, f[1]).valid
    /\ HeaderAt(data, f[1]).frame_length = f[2]

\* C25 - Frame list well-formedness: the frames a find_mp3_frames call returns
\* are strictly ascending and do not overlap, start at or after start_offset,
\* are longer than 4 bytes, end within the data, and the header at each
\* offset parses as valid with exactly that length.
C25_FramesWellFormed ==
    pc = "scan_done" =>
        /\ \A i \in 1..Len(scan.frames) :
               /\ scan.frames[i][1] >= scan.start_offset
               /\ scan.frames[i][2] > 4
               /\ scan.frames[i][1] + scan.frames[i][2] <= Len(scan.data)
               /\ FrameParses(scan.data, scan.frames[i])
        /\ \A i \in 1..(Len(scan.frames) - 1) :
               /\ scan.frames[i][1] < scan.frames[i + 1][1]
               /\ scan.frames[i][1] + scan.frames[i][2] <= scan.frames[i + 1][1]

\* C25 happens: a call on a run whose last frame is cut short returned the two
\* whole frames and not the cut one
C25_Witness ==
    /\ pc = "scan_done"
    /\ scan.data = SubSeq(Repeat(Frame24, 3), 1, 60)
    /\ scan.start_offset = 0
    /\ scan.max_scan = NoMaxScan
    /\ Len(scan.frames) = 2
    /\ HeaderAt(scan.data, 48).valid

\* C22 - Scan stability under embedding: after every successful embed the
\* protected set of the output equals the protected set of the cover.
C22_ScanStable ==
    (pc = "embedded" /\ embedErr = Ok) =>
        build_protected_indices(outputFile) = build_protected_indices(cover)

\* C23 - Stego stays readable: the reader accepts the output of every
\* successful embed (the reader accepted the cover, or the embed had failed).
C23_StegoReadable ==
    (pc = "embedded" /\ embedErr = Ok) =>
        /\ read_mp3_bytes(cover).err = Ok
        /\ read_mp3_bytes(outputFile).err = Ok

\* ceil(n / k)
CeilDiv(n, k) == (n + k - 1) \div k

\* C26 - Minimal footprint: a successful embed of a stream of T bits changes
\* at most the ceil(T / k) usable positions numbered offset, ..., offset +
\* ceil(T / k) - 1 mod U; every other byte of the output, the usable position
\* after the last group included, is the byte of the cover.
C26_MinimalFootprint ==
    (pc = "embedded" /\ embedErr = Ok) =>
        /\ Len(outputFile) = Len(cover)
        /\ OthersKept(outputFile, cover, UsablePositions(cover),
                      CeilDiv(Len(FramedBits), call.bits_per_sample),
                      StartOffset(call.random_position, call.key,
                                  Len(UsablePositions(cover))))
        /\ \A j \in build_protected_indices(cover) :
               j < Len(cover) => At(outputFile, j) = At(cover, j)

\* the 4-byte little-endian length field, as the output of embed holds it
\* after the 14 bits of the start signature
LengthField ==
    LET b == ReadBytes(UnpackedBits, 14, 4)
    IN  b[1] + 256 * b[2] + 65536 * b[3] + 16777216 * b[4]

\* the number of bytes of the framed stream between the filename and the end
\* signature
PlacedBytes == ((Len(FramedBits) - 28) \div 8) - 5 - Len(Utf8Encode(call.filename))

\* C27 - Length field: after every successful embed the length field equals
\* the number of payload bytes placed between the filename and the end
\* signature, and that number is the byte length of the secret file.
C27_LengthField ==
    (pc = "embedded" /\ embedErr = Ok) =>
        /\ LengthField = PlacedBytes
        /\ PlacedBytes = Len(secret)

\* the length field always counts the payload bytes placed
LengthCountsPlaced == (pc = "embedded" /\ embedErr = Ok) => LengthField = PlacedBytes

\* the output_path argument of the extract calls: "/o"
OutputDirPath == <<47, 111>>

\* path names a file directly inside the directory dir: dir, a separator, and
\* a name without a separator that is neither "." nor ".."
DirectlyInside(path, dir) ==
    /\ Len(path) > Len(dir) + 1
    /\ SubSeq(path, 1, Len(dir) + 1) = dir \o <<47>>
    /\ \A j \in (Len(dir) + 2)..Len(path) : path[j] # 47
    /\ SubSeq(path, Len(dir) + 2, Len(path)) \notin {<<46>>, <<46, 46>>}

\* C28 - Output containment: the file a successful extract writes is directly
\* inside output_dir, whatever filename the stego file carries.
C28_OutputContained ==
    (pc = "extracted" /\ result.err = Ok) =>
        DirectlyInside(PathJoin(OutputDirPath, result.output_file), OutputDirPath)

\* every file extract writes for a stego file that embed wrote is directly
\* inside output_dir
EmbeddedNamesContained ==
    (pc = "extracted" /\ result.err = Ok /\ embedErr = Ok) =>
        DirectlyInside(PathJoin(OutputDirPath, result.output_file), OutputDirPath)

\* extract was run with random position and without encryption under the key
\* "ba" on the output of a successful embed with random position and without
\* encryption under the key "ab"
AnagramExtract ==
    /\ pc = "extracted"
    /\ embedErr = Ok
    /\ call.random_position /\ xcall.random_position
    /\ ~call.encrypt /\ ~xcall.encrypted
    /\ call.key = KeyAB /\ xcall.key = KeyBA

\* the offsets of the key of the embed and of the key of the extract lie in
\* [0, limit) and are equal
SameOffset ==
    /\ OffsetOf(call.key) \in 0..(Len(UsablePositions(cover)) - 1)
    /\ OffsetOf(xcall.key) = OffsetOf(call.key)

\* C29 - Offset depends on the key only through its code-point sum: the offset
\* of a key lies in [0, limit), an anagram of the key gives the same offset,
\* and without encryption an extract under the anagram recovers the secret
\* embedded under the key.
C29_OffsetBySum ==
    AnagramExtract => (SameOffset /\ result.err = Ok /\ result.payload = secret)

\* an extract under an anagram of the key does what the extract under the key
\* itself does
AnagramSameResult ==
    AnagramExtract =>
        /\ SameOffset
        /\ result = extract(outputFile, xcall.dir, FALSE, call.key, TRUE)

\* C30 - Concurrent extractions do not clobber each other: when two threads
\* that read the same filename into the same folder have both written, they
\* have written two files of different names, and each file holds the payload
\* of its thread.
C30_NoClobber ==
    (/\ \A w \in Workers : worker[w].at = "done"
     /\ worker[1].filename = worker[2].filename) =>
        /\ worker[1].output_file # worker[2].output_file
        /\ \A w \in Workers :
               extract_output_folder[worker[w].output_file] = worker[w].payload

====
